---- MODULE Spec2Model ----
(***************************************************************************)
(* protoc-gen-py-mcp: the protoc plugin of src/src/protoc_gen_py_mcp.      *)
(*                                                                         *)
(* McpPlugin.generate() is modelled as a state machine: GenerateBegin      *)
(* (parse_parameters and _build_type_index), one HandleFile step per entry *)
(* of request.proto_file, and GenerateEnd.  Python strings are TLA+        *)
(* strings; a generated file's content is the sequence of its emitted      *)
(* lines, each line a record holding the line's kind, its indentation and  *)
(* the values interpolated into it.                                        *)
(***************************************************************************)
EXTENDS Integers, Sequences, FiniteSets, TLC

VARIABLES
    request,          \* plugin.CodeGeneratorRequest read by main()
    faults,           \* file name -> class of the exception raised while generating it ("" = none)
    parameters,       \* McpPlugin.parameters
    debug_mode,       \* McpPlugin.debug_mode
    reported,         \* [errors, warnings] logged by the last _validate_parameters
    manager,          \* ConfigManager: [parameters, keys, config]
    validation,       \* ValidationResult of the last default_validator.validate
    calls,            \* the parse_parameters calls made so far: <<[on, parameter_string]>>
    process,          \* what main() did to the process: [exited, exit_code, stdout, stderr]
    message_types,    \* McpPlugin.message_types
    enum_types,       \* McpPlugin.enum_types
    source_comments,  \* McpPlugin.source_comments
    response,         \* plugin.CodeGeneratorResponse: [file, error, supported_features]
    pc,               \* position inside generate()
    fileIdx           \* position of the loop over request.proto_file

vars == <<request, faults, parameters, debug_mode, reported, manager, validation, calls, process,
          message_types, enum_types, source_comments, response, pc, fileIdx>>

----------------------------------------------------------------------------
(* Bounds of the model *)

MaxFields == 2
MaxFiles == 3

----------------------------------------------------------------------------
(* Python str operations *)

StartsWith(s, p) == Len(s) >= Len(p) /\ SubSeq(s, 1, Len(p)) = p

EndsWith(s, p) == Len(s) >= Len(p) /\ SubSeq(s, Len(s) - Len(p) + 1, Len(s)) = p

RECURSIVE Find(_, _, _)
Find(s, sub, i) ==
    IF i + Len(sub) - 1 > Len(s) THEN 0
    ELSE IF SubSeq(s, i, i + Len(sub) - 1) = sub THEN i
    ELSE Find(s, sub, i + 1)

Contains(s, sub) == Find(s, sub, 1) # 0

RECURSIVE Replace(_, _, _)
Replace(s, old, new) ==
    LET k == Find(s, old, 1) IN
    IF k = 0 THEN s
    ELSE SubSeq(s, 1, k - 1) \o new \o Replace(SubSeq(s, k + Len(old), Len(s)), old, new)

RECURSIVE Split(_, _)
Split(s, sep) ==
    LET k == Find(s, sep, 1) IN
    IF k = 0 THEN <<s>>
    ELSE <<SubSeq(s, 1, k - 1)>> \o Split(SubSeq(s, k + Len(sep), Len(s)), sep)

SplitFirst(s, sep) ==
    LET k == Find(s, sep, 1) IN
    <<SubSeq(s, 1, k - 1), SubSeq(s, k + Len(sep), Len(s))>>

RECURSIVE Join(_, _)
Join(parts, sep) ==
    IF Len(parts) = 0 THEN ""
    ELSE IF Len(parts) = 1 THEN parts[1]
    ELSE parts[1] \o sep \o Join(Tail(parts), sep)

RECURSIVE LStrip(_)
LStrip(s) == IF Len(s) > 0 /\ SubSeq(s, 1, 1) = " " THEN LStrip(SubSeq(s, 2, Len(s))) ELSE s

RECURSIVE RStrip(_)
RStrip(s) ==
    IF Len(s) > 0 /\ SubSeq(s, Len(s), Len(s)) = " " THEN RStrip(SubSeq(s, 1, Len(s) - 1)) ELSE s

Strip(s) == RStrip(LStrip(s))

UpperChars == "ABCDEFGHIJKLMNOPQRSTUVWXYZ"
LowerChars == "abcdefghijklmnopqrstuvwxyz"

IsUpper(c) == Contains(UpperChars, c)

LowerChar(c) ==
    LET k == Find(UpperChars, c, 1) IN IF k = 0 THEN c ELSE SubSeq(LowerChars, k, k)

RECURSIVE Lower(_)
Lower(s) == IF Len(s) = 0 THEN "" ELSE LowerChar(SubSeq(s, 1, 1)) \o Lower(SubSeq(s, 2, Len(s)))

Last(seq) == seq[Len(seq)]

\* dict[key] = value
Put(dict, key, value) == (key :> value) @@ dict

\* dict.get(key, default)
Get(dict, key, default) == IF key \in DOMAIN dict THEN dict[key] ELSE default

EmptyDict == [k \in {} |-> ""]

----------------------------------------------------------------------------
(* Plugin parameters *)

RECURSIVE ParseSegmentsSplitAll(_, _)
\* a parser that splits a segment at every "=" and keeps the first two parts
ParseSegmentsSplitAll(params, segs) ==
    IF Len(segs) = 0 THEN params
    ELSE LET param == Head(segs)
             kv == Split(param, "=")
             next == IF Contains(param, "=")
                     THEN Put(params, Strip(kv[1]), Strip(kv[2]))
                     ELSE Put(params, Strip(param), "true")
         IN ParseSegmentsSplitAll(next, Tail(segs))

RECURSIVE ParseSegments(_, _)
ParseSegments(params, segs) ==
    IF Len(segs) = 0 THEN params
    ELSE LET param == Head(segs)
             kv == SplitFirst(param, "=")
             next == IF Contains(param, "=")
                     THEN Put(params, Strip(kv[1]), Strip(kv[2]))
                     ELSE Put(params, Strip(param), "true")
         IN ParseSegments(next, Tail(segs))

Truthy == {"true", "1", "yes"}

DebugValues == {"true", "1", "yes", "basic", "verbose", "trace"}

\* parse_parameters: the new value of self.parameters
ParseParameters(params, parameter_string) ==
    IF parameter_string = "" THEN params
    ELSE ParseSegments(params, Split(parameter_string, ","))

\* parse_parameters: the new value of self.debug_mode
ParseDebugMode(old_mode, params, parameter_string) ==
    IF parameter_string = "" THEN old_mode
    ELSE Lower(Get(ParseParameters(params, parameter_string), "debug", "")) \in DebugValues

GetOutputSuffix(params) == Get(params, "output_suffix", "_pb2_mcp.py")

GetToolNameCase(params) == Get(params, "tool_name_case", "snake")

IncludeComments(params) == Lower(Get(params, "include_comments", "true")) \in Truthy

GetStreamMode(params) == Get(params, "stream_mode", "collect")

\* _get_grpc_target() or "localhost:50051"
GetGrpcTarget(params) ==
    IF Get(params, "grpc_target", "") = "" THEN "localhost:50051" ELSE params["grpc_target"]

IsAsyncMode(params) == Lower(Get(params, "async", "")) \in Truthy

Digits == "0123456789"

RECURSIVE DigitsValue(_, _)
\* the number written by a string of decimal digits, acc being the value read so far
DigitsValue(s, acc) ==
    IF Len(s) = 0 THEN acc
    ELSE DigitsValue(SubSeq(s, 2, Len(s)), 10 * acc + (Find(Digits, SubSeq(s, 1, 1), 1) - 1))

\* the unsigned digits of the argument of int(), "" when the argument has a bare sign
Unsigned(s) ==
    LET t == Strip(s) IN
    IF Len(t) > 0 /\ SubSeq(t, 1, 1) \in {"+", "-"} THEN SubSeq(t, 2, Len(t)) ELSE t

\* int(s) does not raise ValueError
IsInt(s) ==
    LET t == Unsigned(s) IN
    Len(t) > 0 /\ \A i \in 1..Len(t) : Contains(Digits, SubSeq(t, i, i))

\* int(s)
IntOf(s) ==
    IF StartsWith(Strip(s), "-") THEN 0 - DigitsValue(Unsigned(s), 0)
    ELSE DigitsValue(Unsigned(s), 0)

RECURSIVE Str(_)
\* str(n) of an int
Str(n) ==
    IF n < 0 THEN "-" \o Str(0 - n)
    ELSE IF n < 10 THEN SubSeq(Digits, n + 1, n + 1)
    ELSE Str(n \div 10) \o SubSeq(Digits, (n % 10) + 1, (n % 10) + 1)

\* str.isalnum() over ASCII
IsAlnum(s) ==
    /\ Len(s) > 0
    /\ \A i \in 1..Len(s) :
           Contains(Digits \o UpperChars \o LowerChars, SubSeq(s, i, i))

CreateValidationError(param_name, param_value, valid_options) ==
    "Invalid value '" \o param_value \o "' for parameter '" \o param_name
        \o "'. Valid options are: " \o Join(valid_options, ", ")

CreateParameterError(param_name, issue, suggestion) ==
    "Parameter '" \o param_name \o "': " \o issue
        \o (IF suggestion # "" THEN ". " \o suggestion ELSE "")

\* enum_validations of _validate_parameters, in the order of the dict
enum_validations ==
    << [param_name |-> "tool_name_case", valid_values |-> <<"snake", "camel", "pascal", "kebab">>],
       [param_name |-> "error_format", valid_values |-> <<"standard", "simple", "detailed">>],
       [param_name |-> "stream_mode", valid_values |-> <<"collect", "skip", "warn">>],
       [param_name |-> "auth_type",
        valid_values |-> <<"none", "bearer", "api_key", "mtls", "custom">>],
       [param_name |-> "debug",
        valid_values |-> <<"", "true", "1", "yes", "basic", "verbose", "trace", "false", "0",
                           "no">>] >>

\* the elements of a sequence of one-element-or-empty sequences, concatenated
RECURSIVE Concat(_)
Concat(seqs) == IF Len(seqs) = 0 THEN <<>> ELSE Head(seqs) \o Concat(Tail(seqs))

\* _validate_parameters: the lists errors and warnings it logs
ValidateParameters(params) ==
    LET enum_errors ==
            Concat([k \in 1..Len(enum_validations) |->
                       LET v == enum_validations[k] IN
                       IF v.param_name \in DOMAIN params
                          /\ \A j \in 1..Len(v.valid_values) :
                                 v.valid_values[j] # Lower(params[v.param_name])
                       THEN <<CreateValidationError(v.param_name,
                                                    Lower(params[v.param_name]),
                                                    v.valid_values)>>
                       ELSE <<>>])
        timeout_errors ==
            IF "timeout" \notin DOMAIN params THEN <<>>
            ELSE IF ~IsInt(params["timeout"])
            THEN <<CreateParameterError("timeout",
                       "must be an integer, got '" \o params["timeout"] \o "'",
                       "Example: timeout=30")>>
            ELSE IF IntOf(params["timeout"]) <= 0
            THEN <<CreateParameterError("timeout", "must be a positive integer",
                                        "Example: timeout=30")>>
            ELSE <<>>
        timeout_warnings ==
            IF "timeout" \in DOMAIN params /\ IsInt(params["timeout"])
               /\ IntOf(params["timeout"]) > 300
            THEN <<"timeout=" \o Str(IntOf(params["timeout"]))
                       \o " is very high (>5 minutes). Consider a lower value for better user experience.">>
            ELSE <<>>
        grpc_target_errors ==
            IF "grpc_target" \in DOMAIN params
               /\ (params["grpc_target"] = "" \/ ~Contains(params["grpc_target"], ":"))
            THEN <<CreateParameterError("grpc_target", "must be in format 'host:port'",
                       "Example: grpc_target=localhost:50051 or grpc_target=api.example.com:443")>>
            ELSE <<>>
        output_suffix_errors ==
            IF "output_suffix" \in DOMAIN params /\ ~EndsWith(params["output_suffix"], ".py")
            THEN <<CreateParameterError("output_suffix", "must end with '.py'",
                                        "Example: output_suffix=_mcp_server.py")>>
            ELSE <<>>
        pattern_errors ==
            Concat([k \in 1..2 |->
                       LET param_name == <<"server_name_pattern", "function_name_pattern">>[k]
                       IN IF param_name \in DOMAIN params
                             /\ ~Contains(params[param_name], "{service}")
                          THEN <<CreateParameterError(param_name,
                                     "must contain '{service}' placeholder",
                                     "Example: " \o param_name \o "=My{service}Server")>>
                          ELSE <<>>])
        auth_header_warnings ==
            IF Get(params, "auth_type", "none") \in {"bearer", "api_key"}
               /\ "auth_header" \in DOMAIN params
               /\ (params["auth_header"] = ""
                   \/ ~IsAlnum(Replace(Replace(params["auth_header"], "-", ""), "_", "")))
            THEN <<"auth_header='" \o params["auth_header"]
                       \o "' may not be a valid HTTP header name">>
            ELSE <<>>
    IN [errors |-> enum_errors \o timeout_errors \o grpc_target_errors
                       \o output_suffix_errors \o pattern_errors,
        warnings |-> timeout_warnings \o auth_header_warnings]

\* _get_grpc_timeout
GetGrpcTimeout(params) ==
    IF IsInt(Get(params, "timeout", "30")) THEN IntOf(Get(params, "timeout", "30")) ELSE 30

----------------------------------------------------------------------------
(* validation.py: the declarative validation rules *)

validate_enum_value(valid_values, value) ==
    \E j \in 1..Len(valid_values) : Lower(valid_values[j]) = Lower(value)

validate_timeout(value) == IsInt(value) /\ 0 < IntOf(value) /\ IntOf(value) <= 300

validate_grpc_target(value) ==
    /\ value # "" /\ Contains(value, ":")
    /\ LET parts == Split(value, ":") IN
       Len(parts) = 2 /\ Strip(parts[1]) # "" /\ Strip(parts[2]) # ""

validate_file_extension(required_ext, value) == EndsWith(value, required_ext)

validate_pattern_placeholder(required_placeholder, value) ==
    Contains(value, required_placeholder)

timeout_warning_threshold(value) == IsInt(value) /\ IntOf(value) > 300

\* VALIDATION_RULES; warning_message "" stands for a rule without warning_threshold
VALIDATION_RULES ==
    << [field_name |-> "tool_name_case",
        error_message |-> "must be one of: snake, camel, pascal, kebab",
        suggestions |-> <<"tool_name_case=snake">>, warning_message |-> ""],
       [field_name |-> "error_format",
        error_message |-> "must be one of: standard, simple, detailed",
        suggestions |-> <<"error_format=standard">>, warning_message |-> ""],
       [field_name |-> "stream_mode",
        error_message |-> "must be one of: collect, skip, warn",
        suggestions |-> <<"stream_mode=collect">>, warning_message |-> ""],
       [field_name |-> "debug",
        error_message |-> "must be one of: true, false, basic, verbose, trace",
        suggestions |-> <<"debug=basic", "debug=verbose">>, warning_message |-> ""],
       [field_name |-> "timeout",
        error_message |-> "must be a positive integer between 1-300 seconds",
        suggestions |-> <<"timeout=30", "timeout=60">>,
        warning_message |->
            "timeout is very high (>5 minutes). Consider a lower value for better user experience."],
       [field_name |-> "grpc_target",
        error_message |-> "must be in format 'host:port'",
        suggestions |-> <<"grpc_target=localhost:50051", "grpc_target=api.example.com:443">>,
        warning_message |-> ""],
       [field_name |-> "output_suffix",
        error_message |-> "must end with '.py'",
        suggestions |-> <<"output_suffix=_mcp_server.py">>, warning_message |-> ""],
       [field_name |-> "server_name_pattern",
        error_message |-> "must contain '{service}' placeholder",
        suggestions |-> <<"server_name_pattern=My{service}Server">>, warning_message |-> ""],
       [field_name |-> "function_name_pattern",
        error_message |-> "must contain '{service}' placeholder",
        suggestions |-> <<"function_name_pattern={service}Function">>,
        warning_message |-> ""] >>

RuleNames == {VALIDATION_RULES[k].field_name : k \in 1..Len(VALIDATION_RULES)}

\* ParameterValidator.rules[param_name]
RuleOf(param_name) ==
    VALIDATION_RULES[CHOOSE k \in 1..Len(VALIDATION_RULES) :
                         VALIDATION_RULES[k].field_name = param_name]

\* rule.validator(param_value) of the rule of this parameter
RuleValidator(param_name, value) ==
    CASE param_name = "tool_name_case" ->
             validate_enum_value(<<"snake", "camel", "pascal", "kebab">>, value)
      [] param_name = "error_format" ->
             validate_enum_value(<<"standard", "simple", "detailed">>, value)
      [] param_name = "stream_mode" ->
             validate_enum_value(<<"collect", "skip", "warn">>, value)
      [] param_name = "debug" ->
             validate_enum_value(<<"", "true", "1", "yes", "basic", "verbose", "trace",
                                   "false", "0", "no">>, value)
      [] param_name = "timeout" -> validate_timeout(value)
      [] param_name = "grpc_target" -> validate_grpc_target(value)
      [] param_name = "output_suffix" -> validate_file_extension(".py", value)
      [] param_name = "server_name_pattern" -> validate_pattern_placeholder("{service}", value)
      [] param_name = "function_name_pattern" ->
             validate_pattern_placeholder("{service}", value)

\* rule.warning_threshold and rule.warning_threshold(param_value)
RuleWarningThreshold(param_name, value) ==
    param_name = "timeout" /\ timeout_warning_threshold(value)

FormatError(rule) ==
    "Parameter '" \o rule.field_name \o "': " \o rule.error_message
        \o (IF Len(rule.suggestions) > 0
            THEN ". Examples: " \o Join(rule.suggestions, ", ") ELSE "")

FormatWarning(rule, param_value) ==
    rule.field_name \o "=" \o param_value \o ": "
        \o (IF rule.warning_message # "" THEN rule.warning_message
            ELSE "Warning for " \o rule.field_name \o "=" \o param_value)

RECURSIVE Validate(_, _, _)
\* ParameterValidator.validate: the loop over parameters.items(), keys in insertion order
Validate(result, keys, params) ==
    IF Len(keys) = 0 THEN result
    ELSE LET param_name == Head(keys)
             param_value == params[param_name]
             next ==
                 IF param_name \notin RuleNames THEN result
                 ELSE IF ~RuleValidator(param_name, param_value)
                 THEN [result EXCEPT !.errors = Append(@, FormatError(RuleOf(param_name)))]
                 ELSE IF RuleWarningThreshold(param_name, param_value)
                 THEN [result EXCEPT !.warnings =
                           Append(@, FormatWarning(RuleOf(param_name), param_value))]
                 ELSE result
         IN Validate(next, Tail(keys), params)

ValidationResult == [errors |-> <<>>, warnings |-> <<>>]

----------------------------------------------------------------------------
(* core/config.py: ConfigManager *)

\* PluginConfig()
PluginConfig ==
    [debug_mode |-> FALSE, debug_level |-> "none", show_generated_code |-> FALSE,
     show_type_details |-> FALSE, output_suffix |-> "_pb2_mcp.py",
     server_name_pattern |-> "{service}", function_name_pattern |-> "create_{service}_server",
     tool_name_case |-> "snake", include_comments |-> TRUE, error_format |-> "standard",
     stream_mode |-> "collect", use_request_interceptor |-> FALSE, grpc_target |-> "",
     async_mode |-> FALSE, insecure_channel |-> FALSE, grpc_timeout |-> 30]

GetBooleanParam(params, key, default) ==
    LET value == Lower(Get(params, key, "")) IN
    IF value = "" THEN default ELSE value \in Truthy

\* a resolver that gives the default for every integer that is not positive
GetIntParamPositiveOnly(params, key, default) ==
    LET value == Get(params, key, "") IN
    IF value = "" THEN default
    ELSE IF IsInt(value) /\ IntOf(value) > 0 THEN IntOf(value) ELSE default

GetIntParam(params, key, default) ==
    LET value == Get(params, key, "") IN
    IF value = "" THEN default
    ELSE IF IsInt(value) THEN IntOf(value) ELSE default

\* _create_config_from_parameters; grpc_target "" stands for None
CreateConfigFromParameters(params) ==
    LET debug_value == Lower(Get(params, "debug", ""))
        debug_mode_ == debug_value \in DebugValues
    IN [debug_mode |-> debug_mode_,
        debug_level |-> IF debug_value \in {"basic", "verbose", "trace"} THEN debug_value
                        ELSE IF debug_mode_ THEN "basic" ELSE "none",
        show_generated_code |-> GetBooleanParam(params, "show_generated", FALSE),
        show_type_details |-> GetBooleanParam(params, "show_types", FALSE),
        output_suffix |-> Get(params, "output_suffix", "_pb2_mcp.py"),
        server_name_pattern |-> Get(params, "server_name_pattern", "{service}"),
        function_name_pattern |-> Get(params, "function_name_pattern",
                                      "create_{service}_server"),
        tool_name_case |-> Get(params, "tool_name_case", "snake"),
        include_comments |-> GetBooleanParam(params, "include_comments", TRUE),
        error_format |-> Get(params, "error_format", "standard"),
        stream_mode |-> Get(params, "stream_mode", "collect"),
        use_request_interceptor |-> GetBooleanParam(params, "request_interceptor", FALSE),
        grpc_target |-> Get(params, "grpc_target", ""),
        async_mode |-> GetBooleanParam(params, "async", FALSE),
        insecure_channel |-> GetBooleanParam(params, "insecure", FALSE),
        grpc_timeout |-> GetIntParam(params, "timeout", 30)]

RECURSIVE ManagerSegments(_, _)
\* the loop of ConfigManager.parse_parameters over the comma-separated segments;
\* state is [parameters, keys]: the dict and its keys in insertion order
ManagerSegments(state, segs) ==
    IF Len(segs) = 0 THEN state
    ELSE LET param == Strip(Head(segs))
             kv == SplitFirst(param, "=")
             key == IF Contains(param, "=") THEN Strip(kv[1]) ELSE param
             value == IF Contains(param, "=") THEN Strip(kv[2]) ELSE "true"
             next == IF param = "" THEN state
                     ELSE [parameters |-> Put(state.parameters, key, value),
                           keys |-> IF key \in DOMAIN state.parameters THEN state.keys
                                    ELSE Append(state.keys, key)]
         IN ManagerSegments(next, Tail(segs))

\* ConfigManager(): [parameters, keys, config]
ConfigManager == [parameters |-> EmptyDict, keys |-> <<>>, config |-> PluginConfig]

\* ConfigManager.parse_parameters: the manager it leaves
ManagerParseParameters(parameter_string) ==
    IF Strip(parameter_string) = "" THEN ConfigManager
    ELSE LET state == ManagerSegments([parameters |-> EmptyDict, keys |-> <<>>],
                                      Split(parameter_string, ","))
         IN [parameters |-> state.parameters, keys |-> state.keys,
             config |-> CreateConfigFromParameters(state.parameters)]

----------------------------------------------------------------------------
(* Type index *)

FullName(package, parent_name, name) ==
    IF parent_name # "" THEN "." \o package \o "." \o parent_name \o "." \o name
    ELSE IF package # "" THEN "." \o package \o "." \o name
    ELSE "." \o name

RECURSIVE IndexEnums(_, _, _, _)
IndexEnums(index, enums, package, parent_name) ==
    IF Len(enums) = 0 THEN index
    ELSE IndexEnums([index EXCEPT !.e = Put(@, FullName(package, parent_name, Head(enums).name),
                                            Head(enums))],
                    Tail(enums), package, parent_name)

\* index is [m |-> message_types, e |-> enum_types]
RECURSIVE IndexMessages(_, _, _, _)
IndexMessages(index, messages, package, parent_name) ==
    IF Len(messages) = 0 THEN index
    ELSE LET message == Head(messages)
             i1 == [index EXCEPT !.m = Put(@, FullName(package, parent_name, message.name),
                                           message)]
             nested_parent == IF parent_name # "" THEN parent_name \o "." \o message.name
                              ELSE message.name
             i2 == IF Len(message.nested_type) > 0
                   THEN IndexMessages(i1, message.nested_type, package, nested_parent)
                   ELSE i1
             i3 == IF Len(message.enum_type) > 0
                   THEN IndexEnums(i2, message.enum_type, package, nested_parent)
                   ELSE i2
         IN IndexMessages(i3, Tail(messages), package, parent_name)

\* comments: path -> comment, of one file's source_code_info
RECURSIVE ExtractComments(_, _)
ExtractComments(comments, locations) ==
    IF Len(locations) = 0 THEN comments
    ELSE LET location == Head(locations)
             lead == IF location.leading_comments # ""
                     THEN <<Strip(location.leading_comments)>> ELSE <<>>
             trail == IF location.trailing_comments # ""
                      THEN <<Strip(location.trailing_comments)>> ELSE <<>>
             comment_parts == lead \o trail
         IN ExtractComments(IF Len(comment_parts) > 0
                            THEN Put(comments, location.path, Join(comment_parts, " "))
                            ELSE comments,
                            Tail(locations))

\* state is [m, e, c]: message_types, enum_types, source_comments
RECURSIVE BuildTypeIndex(_, _)
BuildTypeIndex(state, proto_files) ==
    IF Len(proto_files) = 0 THEN state
    ELSE LET proto_file == Head(proto_files)
             c == Put(state.c, proto_file.name,
                      ExtractComments([p \in {} |-> ""], proto_file.location))
             i1 == IndexMessages([m |-> state.m, e |-> state.e], proto_file.message_type,
                                 proto_file.package, "")
             i2 == IndexEnums(i1, proto_file.enum_type, proto_file.package, "")
         IN BuildTypeIndex([m |-> i2.m, e |-> i2.e, c |-> c], Tail(proto_files))

GetComment(comments, proto_file_name, path) ==
    IF proto_file_name \notin DOMAIN comments THEN ""
    ELSE Get(comments[proto_file_name], path, "")

----------------------------------------------------------------------------
(* Type mapper *)

type_mapping ==
    [t \in {"TYPE_DOUBLE", "TYPE_FLOAT"} |-> "float"] @@
    [t \in {"TYPE_INT64", "TYPE_UINT64", "TYPE_INT32", "TYPE_FIXED64", "TYPE_FIXED32",
            "TYPE_UINT32", "TYPE_SFIXED32", "TYPE_SFIXED64", "TYPE_SINT32",
            "TYPE_SINT64"} |-> "int"] @@
    ("TYPE_BOOL" :> "bool") @@ ("TYPE_STRING" :> "str") @@ ("TYPE_BYTES" :> "bytes")

well_known_types ==
    (".google.protobuf.Timestamp" :> "str") @@
    (".google.protobuf.Duration" :> "str") @@
    (".google.protobuf.Any" :> "dict") @@
    (".google.protobuf.Value" :> "Any") @@
    (".google.protobuf.Struct" :> "dict") @@
    (".google.protobuf.ListValue" :> "List[Any]") @@
    (".google.protobuf.Empty" :> "None") @@
    (".google.protobuf.StringValue" :> "str") @@
    (".google.protobuf.Int32Value" :> "int") @@
    (".google.protobuf.Int64Value" :> "int") @@
    (".google.protobuf.UInt32Value" :> "int") @@
    (".google.protobuf.UInt64Value" :> "int") @@
    (".google.protobuf.FloatValue" :> "float") @@
    (".google.protobuf.DoubleValue" :> "float") @@
    (".google.protobuf.BoolValue" :> "bool") @@
    (".google.protobuf.BytesValue" :> "bytes")

\* well_known_types.get(type_name); "" stands for None
GetWellKnownType(type_name) == Get(well_known_types, type_name, "")

\* a scalar rule whose fallback for a message outside the table is Any
GetScalarPythonTypeAnyFallback(field) ==
    IF field.type \in DOMAIN type_mapping THEN type_mapping[field.type]
    ELSE IF field.type = "TYPE_ENUM" THEN "int"
    ELSE IF field.type = "TYPE_MESSAGE"
         THEN IF field.type_name # "" /\ GetWellKnownType(field.type_name) # ""
              THEN GetWellKnownType(field.type_name)
              ELSE "Any"
    ELSE "Any"

GetScalarPythonType(field) ==
    IF field.type \in DOMAIN type_mapping THEN type_mapping[field.type]
    ELSE IF field.type = "TYPE_ENUM" THEN "int"
    ELSE IF field.type = "TYPE_MESSAGE"
         THEN IF field.type_name # "" /\ GetWellKnownType(field.type_name) # ""
              THEN GetWellKnownType(field.type_name)
              ELSE "dict"
    ELSE "Any"

IsMapField(msgs, field) ==
    IF field.label # "LABEL_REPEATED" \/ field.type # "TYPE_MESSAGE" THEN FALSE
    ELSE IF field.type_name \in DOMAIN msgs THEN msgs[field.type_name].map_entry
    ELSE FALSE

\* the last position of `fields` whose field has this number, 0 when there is none
LastNumbered(fields, n) ==
    LET S == {i \in 1..Len(fields) : fields[i].number = n} IN
    IF S = {} THEN 0 ELSE CHOOSE i \in S : \A j \in S : j <= i

\* key and value taken from the first and the second declared field
GetMapTypesByPosition(msgs, field) ==
    IF ~IsMapField(msgs, field) THEN [key |-> "Any", value |-> "Any"]
    ELSE IF field.type_name \notin DOMAIN msgs THEN [key |-> "Any", value |-> "Any"]
    ELSE LET map_entry == msgs[field.type_name] IN
         IF Len(map_entry.field) < 2 THEN [key |-> "Any", value |-> "Any"]
         ELSE [key |-> GetScalarPythonType(map_entry.field[1]),
               value |-> GetScalarPythonType(map_entry.field[2])]

GetMapTypes(msgs, field) ==
    IF ~IsMapField(msgs, field) THEN [key |-> "Any", value |-> "Any"]
    ELSE IF field.type_name \notin DOMAIN msgs THEN [key |-> "Any", value |-> "Any"]
    ELSE LET map_entry == msgs[field.type_name]
             k == LastNumbered(map_entry.field, 1)
             v == LastNumbered(map_entry.field, 2)
         IN IF k = 0 \/ v = 0 THEN [key |-> "Any", value |-> "Any"]
            ELSE [key |-> GetScalarPythonType(map_entry.field[k]),
                  value |-> GetScalarPythonType(map_entry.field[v])]

\* a type mapper that ignores proto3_optional
GetPythonTypeIgnoringOptional(msgs, field) ==
    IF IsMapField(msgs, field)
    THEN "Dict[" \o GetMapTypes(msgs, field).key \o ", " \o GetMapTypes(msgs, field).value \o "]"
    ELSE IF field.label = "LABEL_REPEATED"
    THEN "List[" \o GetScalarPythonType(field) \o "]"
    ELSE GetScalarPythonType(field)

GetPythonType(msgs, field) ==
    IF IsMapField(msgs, field)
    THEN "Dict[" \o GetMapTypes(msgs, field).key \o ", " \o GetMapTypes(msgs, field).value \o "]"
    ELSE IF field.label = "LABEL_REPEATED"
    THEN "List[" \o GetScalarPythonType(field) \o "]"
    ELSE IF field.proto3_optional
    THEN "Optional[" \o GetScalarPythonType(field) \o "]"
    ELSE GetScalarPythonType(field)

----------------------------------------------------------------------------
(* Field analyzer *)

\* indexes of message.oneof_decl that _analyze_message_fields puts in real_oneofs
RealOneofs(message) ==
    {i \in 0..(Len(message.oneof_decl) - 1) :
        ~\E k \in 1..Len(message.field) :
            message.field[k].oneof_index = i /\ message.field[k].proto3_optional}

SyntheticOneofs(message) == (0..(Len(message.oneof_decl) - 1)) \ RealOneofs(message)

\* an analyzer that leaves the members of a real oneof required
AnalyzeFieldOneofRequired(msgs, message, field) ==
    LET is_part_of_real_oneof ==
            field.has_oneof_index /\ field.oneof_index \in RealOneofs(message)
        is_repeated == field.label = "LABEL_REPEATED"
        is_map == IsMapField(msgs, field)
        base_type == GetPythonType(msgs, field)
    IN [name |-> field.name,
        type |-> base_type,
        proto_type |-> field.type,
        required |-> ~field.proto3_optional /\ ~is_repeated /\ ~is_map,
        repeated |-> is_repeated,
        optional |-> field.proto3_optional,
        is_map |-> is_map,
        is_oneof |-> is_part_of_real_oneof,
        oneof_name |-> IF is_part_of_real_oneof
                       THEN message.oneof_decl[field.oneof_index + 1] ELSE "",
        type_name |-> field.type_name]

AnalyzeField(msgs, message, field) ==
    LET is_part_of_real_oneof ==
            field.has_oneof_index /\ field.oneof_index \in RealOneofs(message)
        oneof_name == IF is_part_of_real_oneof
                      THEN message.oneof_decl[field.oneof_index + 1] ELSE ""
        is_optional == field.proto3_optional \/ is_part_of_real_oneof
        is_repeated == field.label = "LABEL_REPEATED"
        is_map == IsMapField(msgs, field)
        is_required == ~is_optional /\ ~is_repeated /\ ~is_map
        base_type == GetPythonType(msgs, field)
    IN [name |-> field.name,
        type |-> IF is_part_of_real_oneof /\ ~StartsWith(base_type, "Optional[")
                 THEN "Optional[" \o base_type \o "]" ELSE base_type,
        proto_type |-> field.type,
        required |-> is_required,
        repeated |-> is_repeated,
        optional |-> is_optional,
        is_map |-> is_map,
        is_oneof |-> is_part_of_real_oneof,
        oneof_name |-> oneof_name,
        type_name |-> field.type_name]

\* an analyzer that gives an unresolved message type one placeholder field
AnalyzeMessageFieldsPlaceholder(msgs, message_type_name) ==
    IF message_type_name \notin DOMAIN msgs
    THEN <<[name |-> "request", type |-> "dict", proto_type |-> "TYPE_MESSAGE",
            required |-> TRUE, repeated |-> FALSE, optional |-> FALSE, is_map |-> FALSE,
            is_oneof |-> FALSE, oneof_name |-> "", type_name |-> message_type_name]>>
    ELSE LET message == msgs[message_type_name] IN
         [k \in 1..Len(message.field) |-> AnalyzeField(msgs, message, message.field[k])]

AnalyzeMessageFields(msgs, message_type_name) ==
    IF message_type_name \notin DOMAIN msgs THEN <<>>
    ELSE LET message == msgs[message_type_name] IN
         [k \in 1..Len(message.field) |-> AnalyzeField(msgs, message, message.field[k])]

----------------------------------------------------------------------------
(* TypeAnalyzer (core/type_analyzer.py), the refactored field analyzer *)

\* TypeAnalyzer.get_python_type, with _get_single_field_type and get_map_types
TypeAnalyzerGetPythonType(msgs, field) ==
    LET scalar(type) == Get(type_mapping, type, "Any")
        message_type(type_name) ==
            IF GetWellKnownType(type_name) # "" THEN GetWellKnownType(type_name) ELSE "dict"
        single(f) == IF f.type = "TYPE_MESSAGE" THEN message_type(f.type_name)
                     ELSE IF f.type = "TYPE_ENUM" THEN "int"
                     ELSE scalar(f.type)
        entry == msgs[field.type_name].field
        keys == {i \in 1..Len(entry) : entry[i].name = "key"}
        values == {i \in 1..Len(entry) : entry[i].name = "value"}
        key_type == IF keys = {} THEN "str"
                    ELSE scalar(entry[CHOOSE i \in keys : \A j \in keys : j <= i].type)
        value_type == IF values = {} THEN "Any"
                      ELSE single(entry[CHOOSE i \in values : \A j \in values : j <= i])
    IN IF IsMapField(msgs, field) THEN "Dict[" \o key_type \o ", " \o value_type \o "]"
       ELSE IF field.label = "LABEL_REPEATED" THEN "List[" \o single(field) \o "]"
       ELSE IF field.proto3_optional THEN "Optional[" \o single(field) \o "]"
       ELSE single(field)

\* TypeAnalyzer.analyze_message_fields
TypeAnalyzerAnalyzeMessageFields(msgs, message_type_name) ==
    IF message_type_name \notin DOMAIN msgs THEN <<>>
    ELSE LET message_type == msgs[message_type_name]
             real_oneofs ==
                 {i \in 0..(Len(message_type.oneof_decl) - 1) :
                     ~\E k \in 1..Len(message_type.field) :
                         /\ message_type.field[k].has_oneof_index
                         /\ message_type.field[k].oneof_index = i
                         /\ message_type.field[k].proto3_optional}
             info(field) ==
                 LET is_part_of_real_oneof ==
                         field.has_oneof_index /\ field.oneof_index \in real_oneofs
                     is_optional == field.proto3_optional \/ is_part_of_real_oneof
                     is_repeated == field.label = "LABEL_REPEATED"
                     is_map == IsMapField(msgs, field)
                     base_type == TypeAnalyzerGetPythonType(msgs, field)
                 IN [name |-> field.name,
                     type |-> IF is_part_of_real_oneof /\ ~StartsWith(base_type, "Optional[")
                              THEN "Optional[" \o base_type \o "]" ELSE base_type,
                     proto_type |-> field.type,
                     required |-> ~is_optional /\ ~is_repeated /\ ~is_map,
                     repeated |-> IF is_map THEN FALSE ELSE is_repeated,
                     optional |-> is_optional,
                     is_oneof |-> is_part_of_real_oneof,
                     oneof_name |-> IF is_part_of_real_oneof
                                    THEN message_type.oneof_decl[field.oneof_index + 1] ELSE "",
                     is_map |-> is_map,
                     type_name |-> field.type_name]
         IN [k \in 1..Len(message_type.field) |-> info(message_type.field[k])]

----------------------------------------------------------------------------
(* Code generator.  A line is [kind, text, args]: text is the emitted line,    *)
(* kind names the statement of the generator that emitted it and args holds *)
(* the values that statement interpolated.                                  *)

Line(kind, text) == [kind |-> kind, text |-> text, args |-> <<>>]

LineOf(kind, text, args) == [kind |-> kind, text |-> text, args |-> args]

\* str(bool)
PyBool(b) == IF b THEN "True" ELSE "False"

RECURSIVE CamelToSnake(_, _)
\* _camel_to_snake(name), from 0-based position i of the name on
CamelToSnake(name, i) ==
    IF i >= Len(name) THEN ""
    ELSE LET char == SubSeq(name, i + 1, i + 1) IN
         (IF IsUpper(char) /\ i > 0 THEN "_" ELSE "") \o LowerChar(char)
             \o CamelToSnake(name, i + 1)

\* a conversion that leaves the name as it is for an unrecognized case value
ConvertToolNameUnknownUnchanged(params, method_name) ==
    LET case_type == GetToolNameCase(params) IN
    IF case_type = "snake" THEN CamelToSnake(method_name, 0)
    ELSE IF case_type = "camel"
         THEN IF method_name # ""
              THEN LowerChar(SubSeq(method_name, 1, 1)) \o SubSeq(method_name, 2, Len(method_name))
              ELSE ""
    ELSE IF case_type = "pascal" THEN method_name
    ELSE IF case_type = "kebab" THEN Replace(CamelToSnake(method_name, 0), "_", "-")
    ELSE method_name

ConvertToolName(params, method_name) ==
    LET case_type == GetToolNameCase(params) IN
    IF case_type = "snake" THEN CamelToSnake(method_name, 0)
    ELSE IF case_type = "camel"
         THEN IF method_name # ""
              THEN LowerChar(SubSeq(method_name, 1, 1)) \o SubSeq(method_name, 2, Len(method_name))
              ELSE ""
    ELSE IF case_type = "pascal" THEN method_name
    ELSE IF case_type = "kebab" THEN Replace(CamelToSnake(method_name, 0), "_", "-")
    ELSE CamelToSnake(method_name, 0)

HasOptionalFields(msgs, proto_file) ==
    \E s \in 1..Len(proto_file.service) :
        \E m \in 1..Len(proto_file.service[s].method) :
            LET input_fields ==
                    AnalyzeMessageFields(msgs, proto_file.service[s].method[m].input_type)
            IN \E k \in 1..Len(input_fields) : input_fields[k].optional

GenerateHeader(proto_file) ==
    << Line("header", "# Generated from " \o proto_file.name),
       Line("header",
            "# DO NOT EDIT: This file is automatically generated by protoc-gen-py-mcp"),
       Line("header", "# Plugin version: protoc-gen-py-mcp"),
       Line("blank", "") >>

Pb2Module(proto_file) == Replace(Replace(proto_file.name, ".proto", "_pb2"), "/", ".")

GrpcModule(proto_file) == Replace(Replace(proto_file.name, ".proto", "_pb2_grpc"), "/", ".")

GenerateImports(params, msgs, proto_file) ==
    (IF IsAsyncMode(params) THEN <<Line("import", "import asyncio")>> ELSE <<>>)
    \o (IF HasOptionalFields(msgs, proto_file)
        THEN <<Line("import", "from typing import Optional")>> ELSE <<>>)
    \o << Line("import", "from fastmcp import FastMCP"),
          Line("import", "import grpc"),
          Line("blank", ""),
          Line("import", "import " \o Pb2Module(proto_file)),
          Line("import", "import " \o GrpcModule(proto_file)),
          Line("blank", "") >>

GenerateMainBlock ==
    << Line("blank", ""),
       Line("blank", ""),
       Line("main", "if __name__ == '__main__':"),
       Line("main", "    mcp.run()") >>

\* the service_name that _generate_grpc_call formats into the stub line ("None" is str(None))
StubServiceName(proto_file, method_name) ==
    LET S == {s \in 1..Len(proto_file.service) :
                 \E m \in 1..Len(proto_file.service[s].method) :
                     proto_file.service[s].method[m].name = method_name}
    IN IF S = {} THEN "None"
       ELSE proto_file.service[CHOOSE s \in S : \A t \in S : s <= t].name

GenerateGrpcCall(params, method, proto_file, indentation) ==
    LET service_name == StubServiceName(proto_file, method.name) IN
    << Line("channel",
            indentation \o "    channel = grpc.insecure_channel('" \o GetGrpcTarget(params) \o "')"),
       LineOf("stub",
              indentation \o "    stub = " \o GrpcModule(proto_file) \o "." \o service_name
                  \o "Stub(channel)",
              [service |-> service_name]),
       LineOf("call", indentation \o "    response = stub." \o method.name \o "(request)",
              [method |-> method.name]),
       Line("blank", ""),
       Line("comment", indentation \o "    # Convert protobuf response to dict for MCP"),
       Line("body",
            indentation \o "    from google.protobuf.json_format import MessageToDict"),
       Line("body", indentation \o "    result = MessageToDict(response)"),
       Line("return", indentation \o "    return result") >>

\* a signature built without the partition: the parameters in declaration order
MethodToolParamsInDeclarationOrder(input_fields) ==
    [k \in 1..Len(input_fields) |->
        input_fields[k].name \o ": " \o input_fields[k].type
            \o (IF input_fields[k].optional THEN " = None" ELSE "")]

\* required_params + optional_params of _generate_method_tool
MethodToolParams(input_fields) ==
    LET required == SelectSeq(input_fields, LAMBDA f : ~f.optional)
        optional == SelectSeq(input_fields, LAMBDA f : f.optional)
    IN [k \in 1..Len(required) |-> required[k].name \o ": " \o required[k].type]
       \o [k \in 1..Len(optional) |->
              optional[k].name \o ": " \o optional[k].type \o " = None"]

RECURSIVE CollectOneofs(_, _)
\* the dict `oneofs` of _generate_method_tool, in insertion order
CollectOneofs(oneofs, fields) ==
    IF Len(fields) = 0 THEN oneofs
    ELSE LET field == Head(fields)
             pos == {i \in 1..Len(oneofs) : oneofs[i].oneof_name = field.oneof_name}
         IN CollectOneofs(
                IF ~field.is_oneof THEN oneofs
                ELSE IF pos = {}
                THEN Append(oneofs, [oneof_name |-> field.oneof_name,
                                     field_names |-> <<field.name>>])
                ELSE [oneofs EXCEPT ![CHOOSE i \in pos : TRUE].field_names =
                                        Append(@, field.name)],
                Tail(fields))

OneofComments(input_fields, indentation) ==
    LET oneofs == CollectOneofs(<<>>, input_fields) IN
    IF Len(oneofs) = 0 THEN <<>>
    ELSE <<Line("comment", indentation \o "    # Oneof validation:")>>
         \o [i \in 1..Len(oneofs) |->
                LineOf("oneof_comment",
                       indentation \o "    # Only one of [" \o Join(oneofs[i].field_names, ", ")
                           \o "] should be provided for oneof '" \o oneofs[i].oneof_name \o "'",
                       oneofs[i])]

RECURSIVE FieldAssignments(_, _)
FieldAssignments(fields, indentation) ==
    IF Len(fields) = 0 THEN <<>>
    ELSE LET field == Head(fields) IN
         (IF field.optional
          THEN << Line("guard", indentation \o "    if " \o field.name \o " is not None:"),
                  Line("assign", indentation \o "        request." \o field.name \o " = "
                                     \o field.name) >>
          ELSE << Line("assign", indentation \o "    request." \o field.name \o " = "
                                     \o field.name) >>)
         \o FieldAssignments(Tail(fields), indentation)

GenerateMethodTool(params, msgs, comments, method, proto_file, service_index, method_index, indentation) ==
    LET method_name == method.name
        method_name_converted == ConvertToolName(params, method_name)
        input_fields == AnalyzeMessageFields(msgs, method.input_type)
        param_list == MethodToolParams(input_fields)
        param_str == Join(param_list, ", ")
        method_comment == GetComment(comments, proto_file.name,
                                     <<6, service_index, 2, method_index>>)
        docstring ==
            IF IncludeComments(params) /\ method_comment # ""
            THEN indentation \o "    \"\"\"Tool for " \o method_name \o " RPC method.\n"
                     \o indentation \o "\n" \o indentation \o "    " \o Strip(method_comment)
                     \o "\n" \o indentation \o "    \"\"\""
            ELSE indentation \o "    \"\"\"Tool for " \o method_name \o " RPC method.\"\"\""
        tool_description ==
            IF method_comment # "" THEN Strip(Replace(method_comment, "\n", " "))
            ELSE "Generated tool for " \o method_name \o " RPC method"
    IN << LineOf("decorator",
                 indentation \o "@mcp.tool(name=\"" \o method_name \o "\", description=\""
                     \o tool_description \o "\")",
                 [name |-> method_name, description |-> tool_description]),
          LineOf("def",
                 indentation \o (IF IsAsyncMode(params) THEN "async def " ELSE "def ")
                     \o method_name_converted \o "(" \o param_str \o "):",
                 [name |-> method_name_converted, params |-> param_list,
                  method |-> method_name]),
          LineOf("docstring", docstring,
                 [comment |-> IF IncludeComments(params) THEN method_comment ELSE ""]),
          Line("comment", indentation \o "    # Construct request message"),
          Line("body", indentation \o "    request = " \o Pb2Module(proto_file) \o "."
                           \o Last(Split(method.input_type, ".")) \o "()") >>
       \o OneofComments(input_fields, indentation)
       \o FieldAssignments(input_fields, indentation)
       \o (IF Len(input_fields) > 0 THEN <<Line("blank", "")>> ELSE <<>>)
       \o GenerateGrpcCall(params, method, proto_file, indentation)

\* required_params + optional_params of _generate_streaming_tool_adapted
StreamingToolParams(input_fields) ==
    LET required == SelectSeq(input_fields, LAMBDA f : ~f.optional)
        optional == SelectSeq(input_fields, LAMBDA f : f.optional)
    IN [k \in 1..Len(required) |-> required[k].name \o ": " \o required[k].type]
       \o [k \in 1..Len(optional) |->
              optional[k].name \o ": " \o optional[k].type \o " = None"]

GenerateStreamingToolAdapted(params, msgs, comments, method, proto_file, service_index, method_index) ==
    LET method_name == method.name
        method_name_converted == ConvertToolName(params, method_name)
        is_client_stream == method.client_streaming
        is_server_stream == method.server_streaming
        input_fields == AnalyzeMessageFields(msgs, method.input_type)
        param_list == IF is_client_stream THEN <<"requests: List[dict]">>
                      ELSE StreamingToolParams(input_fields)
        param_str == Join(param_list, ", ")
        method_comment == GetComment(comments, proto_file.name,
                                     <<6, service_index, 2, method_index>>)
        stream_type == IF is_client_stream THEN "client streaming" ELSE "server streaming"
        docstring ==
            IF IncludeComments(params) /\ method_comment # ""
            THEN "    \"\"\"Tool for " \o method_name \o " RPC method (" \o stream_type
                     \o ").\n    \n    " \o method_comment \o "\n    \n    Note: This is a "
                     \o stream_type \o " RPC adapted for MCP.\n    \"\"\""
            ELSE "    \"\"\"Tool for " \o method_name \o " RPC method (" \o stream_type
                     \o ").\"\"\""
    IN IF is_client_stream /\ is_server_stream THEN <<>>
       ELSE << LineOf("decorator_adapted", "    @mcp.tool()",
                      [name |-> "", description |-> ""]),
               LineOf("def_adapted",
                      (IF IsAsyncMode(params) THEN "    async def " ELSE "    def ")
                          \o method_name_converted \o "(" \o param_str \o ") -> dict:",
                      [name |-> method_name_converted, params |-> param_list,
                       method |-> method_name]),
               LineOf("docstring", docstring,
                      [comment |-> IF IncludeComments(params) THEN method_comment ELSE ""]),
               Line("comment", "        # NOTE: This is a " \o stream_type
                                   \o " RPC adapted for MCP"),
               Line("comment", "        # Results are collected and returned as a list"),
               Line("blank", "") >>
            \o (IF is_client_stream
                THEN << Line("comment", "        # TODO: Implement client streaming logic"),
                        Line("comment", "        # Process list of requests and send them to the streaming RPC"),
                        Line("comment", "        # Return collected responses"),
                        Line("return", "        return {'error': 'Client streaming not yet implemented'}") >>
                ELSE << Line("comment", "        # TODO: Implement server streaming logic"),
                        Line("comment", "        # Send single request and collect all streaming responses"),
                        Line("comment", "        # Return list of responses"),
                        Line("return", "        return {'error': 'Server streaming not yet implemented'}") >>)
            \o <<Line("blank", "")>>

\* a handler that ignores the stream mode and always emits the unary tool
HandleStreamingMethodAlwaysTool(params, msgs, comments, method, proto_file, service_index, method_index) ==
    GenerateMethodTool(params, msgs, comments, method, proto_file, service_index,
                       method_index, "    ")

HandleStreamingMethod(params, msgs, comments, method, proto_file, service_index, method_index) ==
    LET stream_mode == GetStreamMode(params)
        method_name == method.name
        flags == "Client streaming: " \o PyBool(method.client_streaming)
                     \o ", Server streaming: " \o PyBool(method.server_streaming)
    IN IF stream_mode = "skip"
       THEN << Line("comment", "    # Skipped streaming method: " \o method_name),
               Line("comment", "    # " \o flags),
               Line("blank", "") >>
       ELSE (IF stream_mode = "warn"
             THEN << Line("comment", "    # WARNING: " \o method_name \o " is a streaming RPC"),
                     Line("comment", "    # " \o flags),
                     Line("comment", "    # Streaming RPCs may not work well with MCP's request/response model"),
                     Line("blank", "") >>
             ELSE <<>>)
            \o (IF method.client_streaming /\ method.server_streaming /\ stream_mode = "collect"
                THEN << Line("comment", "    # NOTE: " \o method_name
                                            \o " is bidirectional streaming - not supported"),
                        Line("comment", "    # Consider using separate unary RPCs for MCP integration"),
                        Line("blank", "") >>
                ELSE IF stream_mode = "collect"
                THEN GenerateStreamingToolAdapted(params, msgs, comments, method, proto_file,
                                                  service_index, method_index)
                ELSE GenerateMethodTool(params, msgs, comments, method, proto_file,
                                        service_index, method_index, "    "))

\* list(proto_file.service).index(service)
ServiceIndex(proto_file, service) ==
    (CHOOSE i \in 1..Len(proto_file.service) :
        /\ proto_file.service[i] = service
        /\ \A j \in 1..(i - 1) : proto_file.service[j] # service) - 1

RECURSIVE GenerateMethods(_, _, _, _, _, _, _)
\* the loop over service.method of _generate_service_impl, from method_index on
GenerateMethods(params, msgs, comments, service, proto_file, service_index, method_index) ==
    IF method_index >= Len(service.method) THEN <<>>
    ELSE LET method == service.method[method_index + 1] IN
         (IF method_index > 0 THEN <<Line("blank", "")>> ELSE <<>>)
         \o <<Line("blank", "")>>
         \o (IF method.client_streaming \/ method.server_streaming
             THEN HandleStreamingMethod(params, msgs, comments, method, proto_file,
                                        service_index, method_index)
             ELSE GenerateMethodTool(params, msgs, comments, method, proto_file,
                                     service_index, method_index, ""))
         \o GenerateMethods(params, msgs, comments, service, proto_file, service_index,
                            method_index + 1)

GenerateServiceImpl(params, msgs, comments, service, proto_file) ==
    LET service_index == ServiceIndex(proto_file, service) IN
    (IF service_index = 0
     THEN << Line("mcp", "mcp = FastMCP(\"MCP Server from Proto\")"), Line("blank", "") >>
     ELSE <<>>)
    \o GenerateMethods(params, msgs, comments, service, proto_file, service_index, 0)

RECURSIVE GenerateServices(_, _, _, _, _)
\* the loop over proto_file.service of generate_file_content, from position s on
GenerateServices(params, msgs, comments, proto_file, s) ==
    IF s > Len(proto_file.service) THEN <<>>
    ELSE GenerateServiceImpl(params, msgs, comments, proto_file.service[s], proto_file)
         \o GenerateServices(params, msgs, comments, proto_file, s + 1)

\* a generator that emits the main block before the services
GenerateFileContentTrailerFirst(params, msgs, comments, proto_file) ==
    GenerateHeader(proto_file)
    \o GenerateImports(params, msgs, proto_file)
    \o GenerateMainBlock
    \o GenerateServices(params, msgs, comments, proto_file, 1)

GenerateFileContent(params, msgs, comments, proto_file) ==
    GenerateHeader(proto_file)
    \o GenerateImports(params, msgs, proto_file)
    \o GenerateServices(params, msgs, comments, proto_file, 1)
    \o GenerateMainBlock

----------------------------------------------------------------------------
(* Plugin driver *)

Troubleshooting(error_type) ==
    IF Contains(error_type, "AttributeError")
    THEN << "Troubleshooting: This may indicate a malformed proto file or unsupported proto feature.",
            "Try: Verify your proto file syntax with 'protoc --decode_raw < file.proto'" >>
    ELSE IF Contains(error_type, "KeyError")
    THEN << "Troubleshooting: Missing required proto elements or invalid references.",
            "Try: Check that all message types and services are properly defined." >>
    ELSE IF Contains(error_type, "ValueError")
    THEN << "Troubleshooting: Invalid parameter values or proto content.",
            "Try: Review plugin parameters and proto file structure." >>
    ELSE IF Contains(error_type, "ImportError") \/ Contains(error_type, "ModuleNotFoundError")
    THEN << "Troubleshooting: Missing dependencies or installation issues.",
            "Try: Run 'pip install protoc-gen-py-mcp[dev]' to ensure all dependencies." >>
    ELSE <<>>

\* _create_detailed_error_context; the exception is [type, message]
CreateDetailedErrorContext(debug, file_name, exception) ==
    Join(<< "File processing failed: " \o file_name,
            "Error type: " \o exception.type,
            "Error message: " \o exception.message >>
         \o Troubleshooting(exception.type)
         \o << "",
               "Debug suggestions:",
               "1. Enable debug mode: --py-mcp_opt=\"debug=verbose\"",
               "2. Check proto file: protoc --decode_raw < your_file.proto",
               "3. Verify installation: protoc-gen-py-mcp --version",
               "4. Review documentation: PLUGIN_PARAMETERS.md" >>
         \o (IF debug THEN <<"", "Stack trace (debug mode):", "Traceback (most recent call last): ...">>
             ELSE <<>>),
         "\n")

\* the exception raised while the content of this file is generated
Raised(file_name) == [type |-> faults[file_name], message |-> "fault in " \o file_name]

Raises(file_name) == file_name \in DOMAIN faults /\ faults[file_name] # ""

OutputFilename(params, proto_file) == Replace(proto_file.name, ".proto", GetOutputSuffix(params))

\* a handler whose failure discards the output collected so far
HandleFileResponseAborting(resp, proto_file) ==
    IF Len(proto_file.service) = 0 THEN resp
    ELSE IF Raises(proto_file.name)
    THEN [resp EXCEPT !.file = <<>>,
                      !.error = CreateDetailedErrorContext(debug_mode, proto_file.name,
                                                           Raised(proto_file.name))]
    ELSE [resp EXCEPT !.file =
              Append(@, [name |-> OutputFilename(parameters, proto_file),
                         content |-> GenerateFileContent(parameters, message_types,
                                                         source_comments, proto_file)])]

\* handle_file: the response it leaves
HandleFileResponse(resp, proto_file) ==
    IF Len(proto_file.service) = 0 THEN resp
    ELSE IF Raises(proto_file.name)
    THEN [resp EXCEPT !.error = CreateDetailedErrorContext(debug_mode, proto_file.name,
                                                           Raised(proto_file.name))]
    ELSE [resp EXCEPT !.file =
              Append(@, [name |-> OutputFilename(parameters, proto_file),
                         content |-> GenerateFileContent(parameters, message_types,
                                                         source_comments, proto_file)])]

\* McpPlugin.__init__ and the empty response main() hands to generate()
InitPlugin ==
    /\ parameters = EmptyDict
    /\ debug_mode = FALSE
    /\ reported = [errors |-> <<>>, warnings |-> <<>>]
    /\ process = [exited |-> FALSE, exit_code |-> 0, stdout |-> <<>>, stderr |-> <<>>]
    /\ message_types = [n \in {} |-> ""]
    /\ enum_types = [n \in {} |-> ""]
    /\ source_comments = [n \in {} |-> ""]
    /\ response = [file |-> <<>>, error |-> "", supported_features |-> "FEATURE_NONE"]
    /\ pc = "start"
    /\ fileIdx = 0

\* ConfigManager() and no validation run so far
InitManager == manager = ConfigManager /\ validation = ValidationResult /\ calls = <<>>

\* generate(): parse_parameters, supported_features, _build_type_index
GenerateBegin ==
    /\ pc = "start"
    /\ parameters' = ParseParameters(parameters, request.parameter)
    /\ debug_mode' = ParseDebugMode(debug_mode, parameters, request.parameter)
    /\ reported' = IF request.parameter = "" THEN reported
                   ELSE ValidateParameters(ParseParameters(parameters, request.parameter))
    /\ response' = [response EXCEPT !.supported_features = "FEATURE_PROTO3_OPTIONAL"]
    /\ LET index == BuildTypeIndex([m |-> message_types, e |-> enum_types,
                                    c |-> source_comments], request.proto_file)
       IN /\ message_types' = index.m
          /\ enum_types' = index.e
          /\ source_comments' = index.c
    /\ pc' = "files"
    /\ fileIdx' = 1
    /\ calls' = Append(calls, [on |-> "McpPlugin", parameter_string |-> request.parameter])
    /\ UNCHANGED <<request, faults, manager, validation, process>>

\* a driver that generates for every file of the request
IsRequestedAlways(req, proto_file) == proto_file.name = proto_file.name

\* proto_file.name in requested_files, requested_files = set(request.file_to_generate)
IsRequested(req, proto_file) == proto_file.name \in req.file_to_generate

\* generate(): one iteration of the loop over request.proto_file
HandleFile ==
    /\ pc = "files"
    /\ fileIdx <= Len(request.proto_file)
    /\ LET proto_file == request.proto_file[fileIdx] IN
       response' = IF IsRequested(request, proto_file)
                   THEN HandleFileResponse(response, proto_file)
                   ELSE response
    /\ fileIdx' = fileIdx + 1
    /\ UNCHANGED <<request, faults, parameters, debug_mode, reported, manager, validation,
                   calls, process, message_types, enum_types, source_comments, pc>>

\* generate() returns
GenerateEnd ==
    /\ pc = "files"
    /\ fileIdx > Len(request.proto_file)
    /\ pc' = "done"
    /\ UNCHANGED <<request, faults, parameters, debug_mode, reported, manager, validation,
                   calls, process, message_types, enum_types, source_comments, response, fileIdx>>

Next == GenerateBegin \/ HandleFile \/ GenerateEnd

----------------------------------------------------------------------------
(* Requests *)

Field(name, number, label, type, type_name, proto3_optional, has_oneof_index, oneof_index) ==
    [name |-> name, number |-> number, label |-> label, type |-> type,
     type_name |-> type_name, proto3_optional |-> proto3_optional,
     has_oneof_index |-> has_oneof_index, oneof_index |-> oneof_index]

Message(name, field, oneof_decl, map_entry, nested_type) ==
    [name |-> name, field |-> field, oneof_decl |-> oneof_decl, map_entry |-> map_entry,
     nested_type |-> nested_type, enum_type |-> <<>>]

Method(name, input_type, client_streaming, server_streaming) ==
    [name |-> name, input_type |-> input_type, output_type |-> input_type,
     client_streaming |-> client_streaming, server_streaming |-> server_streaming]

Service(name, method) == [name |-> name, method |-> method]

File(name, package, message_type, service, location) ==
    [name |-> name, package |-> package, message_type |-> message_type,
     enum_type |-> <<>>, service |-> service, location |-> location]

\* the sequences of at most n distinct elements of S
DistinctSeqs(S, n) ==
    UNION {{s \in [1..k -> S] : \A i, j \in 1..k : i # j => s[i] # s[j]} : k \in 0..n}

ReqMessage ==
    Message("Req",
            << Field("name", 1, "LABEL_OPTIONAL", "TYPE_STRING", "", FALSE, FALSE, 0),
               Field("tag", 2, "LABEL_OPTIONAL", "TYPE_INT32", "", TRUE, TRUE, 0) >>,
            <<"_tag">>, FALSE, <<>>)

\* one service, two unary methods, a comment on the first method
FileA ==
    File("a.proto", "pkg", <<ReqMessage>>,
         << Service("Alpha", << Method("Get", ".pkg.Req", FALSE, FALSE),
                                Method("Put", ".pkg.Req", FALSE, FALSE) >>) >>,
         << [path |-> <<6, 0, 2, 0>>, leading_comments |-> " Gets it ",
             trailing_comments |-> ""] >>)

\* no service
FileB ==
    File("lib/b.proto", "", <<Message("Msg", <<>>, <<>>, FALSE, <<>>)>>, <<>>, <<>>)

\* two services that both declare a method Get; the messages are those of a.proto
FileC ==
    File("c.proto", "pkg", <<>>,
         << Service("First", << Method("Get", ".pkg.Req", FALSE, FALSE),
                                Method("Watch", ".pkg.Req", FALSE, TRUE) >>),
            Service("Second", << Method("Get", ".pkg.Req", FALSE, FALSE),
                                 Method("Del", ".pkg.Req", FALSE, FALSE) >>) >>,
         <<>>)

FilePool == {FileA, FileB, FileC}

FileNames == {f.name : f \in FilePool}

ParameterStrings ==
    {"", "stream_mode=skip", "stream_mode=warn", "debug=verbose, grpc_target=host:1"}

ExceptionClasses == {"KeyError", "AttributeError"}

Requests ==
    {[proto_file |-> fs, file_to_generate |-> g, parameter |-> p] :
        fs \in DistinctSeqs(FilePool, MaxFiles), g \in SUBSET FileNames,
        p \in ParameterStrings}

Faults == [{f.name : f \in {g \in FilePool : Len(g.service) > 0}} -> {""} \cup ExceptionClasses]

Init == InitPlugin /\ InitManager /\ request \in Requests /\ faults \in Faults

Spec == Init /\ [][Next]_vars

----------------------------------------------------------------------------
(* Requests whose method input message ranges over the field shapes *)

\* [name, label, type, type_name, proto3_optional, group]: group names the oneof
\* the field is a member of ("" when field.oneof_index is not set)
Template(name, label, type, type_name, proto3_optional, group) ==
    [name |-> name, label |-> label, type |-> type, type_name |-> type_name,
     proto3_optional |-> proto3_optional, group |-> group]

FieldTemplates ==
    { Template("r", "LABEL_OPTIONAL", "TYPE_STRING", "", FALSE, ""),
      Template("o", "LABEL_OPTIONAL", "TYPE_INT32", "", TRUE, "_o"),
      Template("u", "LABEL_OPTIONAL", "TYPE_STRING", "", TRUE, ""),
      Template("x", "LABEL_OPTIONAL", "TYPE_BOOL", "", FALSE, "choice"),
      Template("y", "LABEL_OPTIONAL", "TYPE_MESSAGE", ".google.protobuf.Timestamp", FALSE,
               "choice"),
      Template("z", "LABEL_OPTIONAL", "TYPE_STRING", "", TRUE, "choice"),
      Template("l", "LABEL_REPEATED", "TYPE_STRING", "", FALSE, ""),
      Template("m", "LABEL_REPEATED", "TYPE_MESSAGE", ".t.M.MEntry", FALSE, ""),
      Template("q", "LABEL_REPEATED", "TYPE_INT32", "", TRUE, "_q") }

GroupOrder == <<"choice", "_o", "_q">>

\* the oneof_decl of a message with these fields: the groups that have a member
DeclOf(templates) ==
    SelectSeq(GroupOrder, LAMBDA g : \E k \in 1..Len(templates) : templates[k].group = g)

PositionIn(seq, x) == CHOOSE i \in 1..Len(seq) : seq[i] = x

FieldOf(templates, k) ==
    LET t == templates[k] IN
    Field(t.name, k, t.label, t.type, t.type_name, t.proto3_optional, t.group # "",
          IF t.group = "" THEN 0 ELSE PositionIn(DeclOf(templates), t.group) - 1)

MEntry ==
    Message("MEntry",
            << Field("key", 1, "LABEL_OPTIONAL", "TYPE_STRING", "", FALSE, FALSE, 0),
               Field("value", 2, "LABEL_OPTIONAL", "TYPE_INT32", "", FALSE, FALSE, 0) >>,
            <<>>, TRUE, <<>>)

MessageOf(templates) ==
    Message("M", [k \in 1..Len(templates) |-> FieldOf(templates, k)], DeclOf(templates),
            FALSE, <<MEntry>>)

\* one service with a unary, a client-streaming, a server-streaming and a
\* bidirectional method, all taking .t.M
FieldsFile(templates) ==
    File("t.proto", "t", <<MessageOf(templates)>>,
         << Service("Svc", << Method("Unary", ".t.M", FALSE, FALSE),
                              Method("Upload", ".t.M", TRUE, FALSE),
                              Method("Watch", ".t.M", FALSE, TRUE),
                              Method("Chat", ".t.M", TRUE, TRUE) >>) >>,
         <<>>)

StreamParameterStrings == {"", "stream_mode=skip", "stream_mode=warn"}

FieldsRequests ==
    {[proto_file |-> <<FieldsFile(ts)>>, file_to_generate |-> {"t.proto"}, parameter |-> p] :
        ts \in DistinctSeqs(FieldTemplates, MaxFields), p \in StreamParameterStrings}

InitFields ==
    InitPlugin /\ InitManager /\ request \in FieldsRequests /\ faults = [n \in {"t.proto"} |-> ""]

SpecFields == InitFields /\ [][Next]_vars

----------------------------------------------------------------------------
(* Requests whose method input message has one field, over the wire types   *)
(* and the referenced type names                                            *)

WireTypes == DOMAIN type_mapping \cup {"TYPE_ENUM", "TYPE_MESSAGE", "TYPE_GROUP"}

Scalar(name, number, type, type_name) ==
    Field(name, number, "LABEL_OPTIONAL", type, type_name, FALSE, FALSE, 0)

\* index entries a field can reference: a plain message and map-entry messages
Plain == Message("Plain", <<Scalar("key", 1, "TYPE_STRING", ""),
                            Scalar("value", 2, "TYPE_INT32", "")>>, <<>>, FALSE, <<>>)

KV == Message("KV", <<Scalar("key", 1, "TYPE_STRING", ""),
                      Scalar("value", 2, "TYPE_INT32", "")>>, <<>>, TRUE, <<>>)

\* the value field is declared before the key field
KV2 == Message("KV2", <<Scalar("value", 2, "TYPE_MESSAGE", ".google.protobuf.Timestamp"),
                        Scalar("key", 1, "TYPE_INT64", "")>>, <<>>, TRUE, <<>>)

KV3 == Message("KV3", <<Scalar("key", 1, "TYPE_BOOL", ""),
                        Scalar("value", 2, "TYPE_ENUM", ".t.E")>>, <<>>, TRUE, <<>>)

IndexedTypeNames == {".t.Plain", ".t.KV", ".t.KV2", ".t.KV3"}

TypeNames ==
    DOMAIN well_known_types
        \cup {".google.protobuf.FieldMask", ".t.Missing", ""} \cup IndexedTypeNames

TypeFields ==
    {Field("f", 1, label, type, type_name, p3o, FALSE, 0) :
        label \in {"LABEL_OPTIONAL", "LABEL_REPEATED"},
        type \in WireTypes \ {"TYPE_MESSAGE"}, type_name \in {""}, p3o \in BOOLEAN}
    \cup
    {Field("f", 1, label, "TYPE_MESSAGE", type_name, p3o, FALSE, 0) :
        label \in {"LABEL_OPTIONAL", "LABEL_REPEATED"}, type_name \in TypeNames,
        p3o \in BOOLEAN}

TypesFile(field) ==
    File("ty.proto", "t",
         <<Message("T", <<field>>, <<>>, FALSE, <<>>), Plain, KV, KV2, KV3>>,
         <<Service("Svc", <<Method("Unary", ".t.T", FALSE, FALSE)>>)>>, <<>>)

TypesRequests ==
    {[proto_file |-> <<TypesFile(f)>>, file_to_generate |-> {"ty.proto"}, parameter |-> ""] :
        f \in TypeFields}

InitTypes ==
    InitPlugin /\ InitManager /\ request \in TypesRequests /\ faults = [n \in {"ty.proto"} |-> ""]

SpecTypes == InitTypes /\ [][Next]_vars

----------------------------------------------------------------------------
(* Requests for one file with one unary method, over method names, file     *)
(* names, method comments and the parameters that shape the emitted tool    *)

\* a file with one service Svc whose one unary method takes the empty message In
OptionFile(file_name, package, method_name, comment) ==
    File(file_name, package, <<Message("In", <<>>, <<>>, FALSE, <<>>)>>,
         <<Service("Svc", <<Method(method_name, FullName(package, "", "In"), FALSE, FALSE)>>)>>,
         IF comment = "" THEN <<>>
         ELSE <<[path |-> <<6, 0, 2, 0>>, leading_comments |-> comment,
                 trailing_comments |-> ""]>>)

OptionRequest(file, parameter) ==
    [proto_file |-> <<file>>, file_to_generate |-> {file.name}, parameter |-> parameter]

MethodNames == {"GetUserInfo", "XMLParser", "lowercase", "A", "", "get_User", "Get2Go"}

EnumType(name) == [name |-> name]

\* message Outer { message Middle { message Inner {} enum Kind {} } enum Color {} }
NestedOuter(outer, middle, inner) ==
    [Message(outer, <<>>, <<>>, FALSE,
             <<[Message(middle, <<>>, <<>>, FALSE, <<Message(inner, <<>>, <<>>, FALSE, <<>>)>>)
                   EXCEPT !.enum_type = <<EnumType("Kind")>>]>>)
        EXCEPT !.enum_type = <<EnumType("Color")>>]

\* the requested file n.proto, with nested messages and enums and a top-level enum
NestedFile(package) ==
    [OptionFile("n.proto", package, "Get", "")
        EXCEPT !.message_type = @ \o <<NestedOuter("Outer", "Middle", "Inner")>>,
               !.enum_type = <<EnumType("Top")>>]

\* a dependency of n.proto: no service, not requested
DependencyFile(package) ==
    [File("dep.proto", package, <<NestedOuter("DepOuter", "DepMiddle", "DepInner")>>, <<>>, <<>>)
        EXCEPT !.enum_type = <<EnumType("DepTop")>>]

\* the requests: method names under every tool_name_case; file names under output
\* suffixes; method comments with comments enabled and disabled; the request interceptor
\* enabled and disabled; nested messages and enums in a requested file and in a dependency
OptionRequests ==
    {OptionRequest(OptionFile("o.proto", "", n, ""), p) :
        n \in MethodNames,
        p \in {"", "tool_name_case=snake", "tool_name_case=camel", "tool_name_case=pascal",
               "tool_name_case=kebab", "tool_name_case=title"}}
    \cup {OptionRequest(OptionFile(n, "pkg", "Get", ""), p) :
              n \in {"o.proto", "dir/o.proto", "my.protocols/api.proto", "a.proto.d/x.proto"},
              p \in {"", "output_suffix=_mcp.py", "output_suffix=.proto.py"}}
    \cup {OptionRequest(OptionFile("o.proto", "pkg", "Get", c), p) :
              c \in {"", " Gets the thing. ", "Line one\nline two"},
              p \in {"", "include_comments=true", "include_comments=false",
                     "include_comments=no"}}
    \cup {OptionRequest(OptionFile("auth_service.proto", "auth", "Login", ""), p) :
              p \in {"request_interceptor=true", "request_interceptor=false",
                     "request_interceptor=true,grpc_target=auth.example.com:443",
                     "grpc_target=auth.example.com:443"}}
    \cup {[proto_file |-> <<DependencyFile(d), NestedFile(n)>>,
           file_to_generate |-> {"n.proto"}, parameter |-> ""] :
              d \in {"", "pkg", "a.b"}, n \in {"", "pkg", "a.b"}}

InitOptions ==
    /\ InitPlugin
    /\ InitManager
    /\ request \in OptionRequests
    /\ faults = [n \in request.file_to_generate |-> ""]

SpecOptions == InitOptions /\ [][Next]_vars

----------------------------------------------------------------------------
(* Calls of parse_parameters on one McpPlugin and on one ConfigManager, as  *)
(* the tests make them                                                      *)

MaxCalls == 2

ConfigStrings ==
    {"", "   ", "param=value=extra, debug", "timeout=60, timeout = 45 ,zzz=1",
     "timeout=300", "timeout=301", "timeout=0", "timeout=-10", "timeout=abc",
     "tool_name_case=weird,stream_mode=bogus,output_suffix=.txt,grpc_target=nohost",
     "valid=true,=invalid,,another=good"}

\* plugin.parse_parameters(parameter_string)
PluginParse ==
    /\ Len(calls) < MaxCalls
    /\ \E parameter_string \in ConfigStrings :
          /\ parameters' = ParseParameters(parameters, parameter_string)
          /\ debug_mode' = ParseDebugMode(debug_mode, parameters, parameter_string)
          /\ reported' = IF parameter_string = "" THEN reported
                         ELSE ValidateParameters(ParseParameters(parameters, parameter_string))
          /\ calls' = Append(calls, [on |-> "McpPlugin", parameter_string |-> parameter_string])
    /\ UNCHANGED <<request, faults, manager, validation, process, message_types, enum_types,
                   source_comments, response, pc, fileIdx>>

\* config_manager.parse_parameters(parameter_string)
ManagerParse ==
    /\ Len(calls) < MaxCalls
    /\ \E parameter_string \in ConfigStrings :
          /\ manager' = ManagerParseParameters(parameter_string)
          /\ validation' = IF Strip(parameter_string) = "" THEN validation
                           ELSE Validate(ValidationResult, manager'.keys, manager'.parameters)
          /\ calls' = Append(calls, [on |-> "ConfigManager",
                                     parameter_string |-> parameter_string])
    /\ UNCHANGED <<request, faults, parameters, debug_mode, reported, process, message_types,
                   enum_types, source_comments, response, pc, fileIdx>>

NextConfig == PluginParse \/ ManagerParse

InitConfig ==
    /\ InitPlugin
    /\ InitManager
    /\ request = [proto_file |-> <<>>, file_to_generate |-> {}, parameter |-> ""]
    /\ faults = [n \in {} |-> ""]

SpecConfig == InitConfig /\ [][NextConfig]_vars

\* option values written in upper or mixed case, next to their lower-case forms
CaseParameterStrings ==
    {"stream_mode=SKIP", "stream_mode=COLLECT", "stream_mode=Warn", "tool_name_case=CAMEL",
     "tool_name_case=Kebab,stream_mode=skip", "tool_name_case=camel", "tool_name_case=LOUD"}

\* one file with a unary and three streaming methods, under each of these strings
InitCase ==
    /\ InitPlugin
    /\ InitManager
    /\ request \in {[proto_file |-> <<FieldsFile(ts)>>, file_to_generate |-> {"t.proto"},
                      parameter |-> p] :
                        ts \in DistinctSeqs(FieldTemplates, 1), p \in CaseParameterStrings}
    /\ faults = [n \in {"t.proto"} |-> ""]

SpecCase == InitCase /\ [][Next]_vars

----------------------------------------------------------------------------
(* main(): the process around generate().  faults also names the top-level  *)
(* steps that raise: "stdin.read", "ParseFromString", "generate" (anything  *)
(* generate() does outside handle_file) and "stdout.write".                 *)

\* the text main() writes to sys.stderr in its except clause
FatalMessage(exception) ==
    Join(<< "[protoc-gen-py-mcp FATAL] Plugin execution failed",
            "Error: " \o exception.type \o ": " \o exception.message,
            "",
            "This is likely due to one of the following:",
            "1. Invalid protobuf input (malformed .proto file)",
            "2. Missing dependencies or corrupted installation",
            "3. Unsupported protobuf features",
            "4. System-level issues (permissions, disk space, etc.)",
            "",
            "Troubleshooting steps:",
            "1. Verify your .proto file syntax: protoc --decode_raw < your_file.proto",
            "2. Reinstall the plugin: pip install --force-reinstall protoc-gen-py-mcp",
            "3. Check protoc version: protoc --version (requires 3.20+)",
            "4. Enable debug mode: --py-mcp_opt=\"debug=trace\"",
            "5. Report issue at: https://github.com/your-org/protoc-gen-py-mcp/issues",
            "",
            "Stack trace:\nTraceback (most recent call last): ..." >>,
         "\n")

\* main(): the except clause: the message on stderr and sys.exit(1)
MainExcept(step) ==
    /\ process' = [process EXCEPT !.exited = TRUE, !.exit_code = 1,
                                  !.stderr = Append(@, FatalMessage(Raised(step)))]
    /\ pc' = "exited"
    /\ UNCHANGED response

\* main(): sys.stdin.buffer.read() and request.ParseFromString(data)
MainRead ==
    /\ pc = "main"
    /\ IF Raises("stdin.read") THEN MainExcept("stdin.read")
       ELSE IF Raises("ParseFromString") THEN MainExcept("ParseFromString")
       ELSE pc' = "start" /\ UNCHANGED <<process, response>>
    /\ UNCHANGED <<request, faults, parameters, debug_mode, reported, manager, validation,
                   calls, message_types, enum_types, source_comments, fileIdx>>

\* generate(): the except clause around everything it does
GenerateExcept ==
    /\ pc = "start"
    /\ Raises("generate")
    /\ response' = [response EXCEPT !.error = "Plugin error: " \o Raised("generate").message]
    /\ pc' = "done"
    /\ UNCHANGED <<request, faults, parameters, debug_mode, reported, manager, validation,
                   calls, process, message_types, enum_types, source_comments, fileIdx>>

\* a main() that ends with exit code 1 when the response carries an error
MainWriteExitOnError ==
    /\ pc = "done"
    /\ IF Raises("stdout.write") THEN MainExcept("stdout.write")
       ELSE /\ process' = [process EXCEPT !.exited = TRUE,
                                          !.exit_code = IF response.error # "" THEN 1 ELSE 0,
                                          !.stdout = Append(@, response)]
            /\ pc' = "exited"
            /\ UNCHANGED response
    /\ UNCHANGED <<request, faults, parameters, debug_mode, reported, manager, validation,
                   calls, message_types, enum_types, source_comments, fileIdx>>

\* main(): sys.stdout.buffer.write(response.SerializeToString()), and the process ends
MainWrite ==
    /\ pc = "done"
    /\ IF Raises("stdout.write") THEN MainExcept("stdout.write")
       ELSE /\ process' = [process EXCEPT !.exited = TRUE, !.stdout = Append(@, response)]
            /\ pc' = "exited"
            /\ UNCHANGED response
    /\ UNCHANGED <<request, faults, parameters, debug_mode, reported, manager, validation,
                   calls, message_types, enum_types, source_comments, fileIdx>>

NextMain ==
    \/ MainRead
    \/ GenerateExcept
    \/ (~Raises("generate") /\ GenerateBegin)
    \/ HandleFile
    \/ GenerateEnd
    \/ MainWrite

\* a process started on a request for a.proto and c.proto, before main() has read it
InitMain ==
    /\ request \in {[proto_file |-> <<FileA, FileC>>, file_to_generate |-> g, parameter |-> p] :
                       g \in SUBSET {"a.proto", "c.proto"}, p \in {"", "debug=true"}}
    /\ faults \in {f \in [{"stdin.read", "ParseFromString", "generate", "stdout.write",
                           "a.proto", "c.proto"} -> {"", "OSError", "KeyError"}] :
                     /\ \A n \in {"stdin.read", "stdout.write"} : f[n] # "KeyError"
                     /\ \A n \in {"ParseFromString", "generate", "a.proto", "c.proto"} :
                            f[n] # "OSError"}
    /\ parameters = EmptyDict
    /\ debug_mode = FALSE
    /\ reported = [errors |-> <<>>, warnings |-> <<>>]
    /\ InitManager
    /\ process = [exited |-> FALSE, exit_code |-> 0, stdout |-> <<>>, stderr |-> <<>>]
    /\ message_types = [n \in {} |-> ""]
    /\ enum_types = [n \in {} |-> ""]
    /\ source_comments = [n \in {} |-> ""]
    /\ response = [file |-> <<>>, error |-> "", supported_features |-> "FEATURE_NONE"]
    /\ pc = "main"
    /\ fileIdx = 0

SpecMain == InitMain /\ [][NextMain]_vars

----------------------------------------------------------------------------
(* Properties *)

Range(seq) == {seq[i] : i \in 1..Len(seq)}

DefKinds == {"def", "def_adapted"}

HasDefault(param) == EndsWith(param, " = None")

Entries == Range(response.file)

\* the proto file an entry of response.file was generated from
GeneratedFrom(entry) ==
    CHOOSE pf \in Range(request.proto_file) : OutputFilename(parameters, pf) = entry.name

LinesOfKind(content, kinds) == SelectSeq(content, LAMBDA l : l.kind \in kinds)

MethodsOf(pf) == UNION {Range(pf.service[s].method) : s \in 1..Len(pf.service)}

MethodNamed(pf, name) == CHOOSE m \in MethodsOf(pf) : m.name = name

\* the declared fields of the input message of a method ("" for an unresolved type)
DeclaredFields(pf, method_name) ==
    LET t == MethodNamed(pf, method_name).input_type IN
    IF t \in DOMAIN message_types THEN message_types[t].field ELSE <<>>

\* what the analyzer returns for the input message of a method
AnalyzedFields(pf, method_name) ==
    AnalyzeMessageFields(message_types, MethodNamed(pf, method_name).input_type)

\* the def lines whose parameters are the fields of the input message
FieldDefs(entry) ==
    {d \in Range(LinesOfKind(entry.content, DefKinds)) :
        d.args.params # <<"requests: List[dict]">>}

\* the parameter emitted for the field of this name
ParamOf(def, name) ==
    CHOOSE k \in 1..Len(def.args.params) : StartsWith(def.args.params[k], name \o ": ")

(* C1: in every emitted signature (unary tool and streaming adapter), no      *)
(* parameter without a default follows a parameter with a "= None" default, *)
(* whatever the declaration order of the fields; every field of the input   *)
(* message has its parameter, with a default exactly when the field is      *)
(* proto3-optional or a member of a real oneof.                             *)
C1_RequiredBeforeOptional ==
    \A e \in Entries :
        /\ \A d \in Range(LinesOfKind(e.content, DefKinds)) :
               \A i, j \in 1..Len(d.args.params) :
                   (i < j /\ HasDefault(d.args.params[i])) => HasDefault(d.args.params[j])
        /\ \A d \in FieldDefs(e) :
               LET fields == DeclaredFields(GeneratedFrom(e), d.args.method)
                   info == AnalyzedFields(GeneratedFrom(e), d.args.method)
               IN /\ Len(d.args.params) = Len(fields)
                  /\ \A k \in 1..Len(fields) :
                         /\ \E i \in 1..Len(d.args.params) :
                                StartsWith(d.args.params[i], fields[k].name \o ": ")
                         /\ HasDefault(d.args.params[ParamOf(d, fields[k].name)])
                                <=> info[k].optional

\* an optional field declared before a required one, emitted after it, in a
\* unary tool and in a streaming adapter
C1_Witness ==
    /\ pc = "done"
    /\ \E e \in Entries :
           /\ LET fields == DeclaredFields(GeneratedFrom(e), "Unary") IN
              Len(fields) = 2 /\ fields[1].name = "o" /\ fields[2].name = "r"
           /\ \E d \in Range(LinesOfKind(e.content, {"def"})) :
                  d.args.params = <<"r: str", "o: Optional[int] = None">>
           /\ \E d \in Range(LinesOfKind(e.content, {"def_adapted"})) :
                  d.args.params = <<"r: str", "o: Optional[int] = None">>

RECURSIVE Flatten(_)
Flatten(seqs) == IF Len(seqs) = 0 THEN <<>> ELSE Head(seqs) \o Flatten(Tail(seqs))

\* the methods of a file in declaration order, each with the service that declares it
OwnedMethods(pf) ==
    Flatten([s \in 1..Len(pf.service) |->
                [m \in 1..Len(pf.service[s].method) |->
                    [service |-> pf.service[s].name, method |-> pf.service[s].method[m]]]])

\* the methods for which dispatch code is emitted: the unary ones, and the
\* streaming ones when the stream mode routes them to the unary tool
DispatchedMethods(pf) ==
    SelectSeq(OwnedMethods(pf),
              LAMBDA o : \/ ~(o.method.client_streaming \/ o.method.server_streaming)
                         \/ GetStreamMode(parameters) \notin {"skip", "collect"})

(* C2: the dispatch code emitted for a method builds the stub of the service  *)
(* that declares the method: the stub lines of a generated file name, in    *)
(* order, the owning services of the methods that are dispatched, also when *)
(* two services of the file declare a method of the same name.              *)
C2_StubOfOwningService ==
    \A e \in Entries :
        LET stubs == LinesOfKind(e.content, {"stub"})
            owned == DispatchedMethods(GeneratedFrom(e))
        IN /\ Len(stubs) = Len(owned)
           /\ \A k \in 1..Len(stubs) : stubs[k].args.service = owned[k].service

\* the input message of the first method of a generated file, as indexed
InputMessage(entry) ==
    message_types[GeneratedFrom(entry).service[1].method[1].input_type]

\* positions of the fields of a message that are members of oneof_decl[i + 1]
Members(message, i) ==
    {k \in 1..Len(message.field) :
        message.field[k].has_oneof_index /\ message.field[k].oneof_index = i}

\* a group is synthetic when every member carries proto3_optional
AllMembersOptional(message, i) ==
    \A k \in Members(message, i) : message.field[k].proto3_optional

Groups(message) == 0..(Len(message.oneof_decl) - 1)

(* C3: the analyzer classifies a oneof group as synthetic iff every member    *)
(* carries proto3_optional; any other group (a mixed one included) is real  *)
(* and all its members get is_oneof = TRUE, while members of a synthetic    *)
(* group get is_oneof = FALSE.                                              *)
C3_SyntheticIffAllMembersOptional ==
    \A name \in DOMAIN message_types :
        LET message == message_types[name]
            info == AnalyzeMessageFields(message_types, name)
        IN \A i \in Groups(message) :
               /\ i \in SyntheticOneofs(message) <=> AllMembersOptional(message, i)
               /\ i \in RealOneofs(message) <=> ~AllMembersOptional(message, i)
               /\ \A k \in Members(message, i) :
                      info[k].is_oneof <=> ~AllMembersOptional(message, i)

(* C4: for every real oneof group of the input message (a group whose       *)
(* members do not all carry proto3_optional), the body of every unary tool  *)
(* has an advisory comment for the group that names exactly the members of  *)
(* the group, and the parameter of every member is hinted Optional[...].    *)
C4_RealOneofCommentAndWrapping ==
    \A e \in Entries :
        LET message == InputMessage(e)
            tools == LinesOfKind(e.content, {"def"})
            notes == LinesOfKind(e.content, {"oneof_comment"})
        IN \A i \in Groups(message) :
               ~AllMembersOptional(message, i) =>
                   LET names == {message.field[k].name : k \in Members(message, i)}
                       about == SelectSeq(notes, LAMBDA l :
                                    l.args.oneof_name = message.oneof_decl[i + 1])
                   IN /\ Len(about) = Len(tools)
                      /\ \A n \in 1..Len(about) :
                             /\ Range(about[n].args.field_names) = names
                             /\ Len(about[n].args.field_names) = Cardinality(names)
                      /\ \A d \in Range(tools) : \A nm \in names :
                             \E p \in Range(d.args.params) :
                                 StartsWith(p, nm \o ": Optional[")

\* the proto3_optional fields among the declared fields of a method's input
OptionalPositions(fields) == {k \in 1..Len(fields) : fields[k].proto3_optional}

\* the parameter at position i of a signature is in the optional partition:
\* it has a default and no parameter without a default follows it
InOptionalPartition(params, i) ==
    /\ HasDefault(params[i])
    /\ \A j \in 1..Len(params) : ~HasDefault(params[j]) => j < i

(* C5 as stated: every field with proto3_optional = TRUE gets a parameter   *)
(* hinted Optional[...] that sits in the optional partition.                *)
C5_EveryOptionalFieldWrapped ==
    \A e \in Entries : \A d \in FieldDefs(e) :
        LET fields == DeclaredFields(GeneratedFrom(e), d.args.method) IN
        \A k \in OptionalPositions(fields) :
            /\ \E i \in 1..Len(d.args.params) :
                   StartsWith(d.args.params[i], fields[k].name \o ": Optional[")
            /\ InOptionalPartition(d.args.params, ParamOf(d, fields[k].name))

(* C5 amended: a proto3_optional field that is not repeated gets a parameter *)
(* hinted Optional[...]; a repeated one keeps its List[...] or Dict[...]    *)
(* hint; in both cases the parameter has the "= None" default and sits in   *)
(* the optional partition, after every parameter without a default.         *)
C5_OptionalWrappedUnlessRepeated ==
    \A e \in Entries : \A d \in FieldDefs(e) :
        LET fields == DeclaredFields(GeneratedFrom(e), d.args.method) IN
        \A k \in OptionalPositions(fields) :
            /\ \E i \in 1..Len(d.args.params) :
                   StartsWith(d.args.params[i], fields[k].name \o ": ")
            /\ LET p == d.args.params[ParamOf(d, fields[k].name)] IN
               IF fields[k].label = "LABEL_REPEATED"
               THEN \/ StartsWith(p, fields[k].name \o ": List[")
                    \/ StartsWith(p, fields[k].name \o ": Dict[")
               ELSE StartsWith(p, fields[k].name \o ": Optional[")
            /\ InOptionalPartition(d.args.params, ParamOf(d, fields[k].name))

\* a proto3_optional string declared first and emitted last, Optional-wrapped
C5_Witness ==
    /\ pc = "done"
    /\ \E e \in Entries :
           /\ LET fields == DeclaredFields(GeneratedFrom(e), "Unary") IN
              /\ Len(fields) = 2
              /\ fields[1].name = "u" /\ fields[1].proto3_optional
              /\ fields[2].name = "r"
           /\ \E d \in Range(LinesOfKind(e.content, {"def"})) :
                  d.args.params = <<"r: str", "u: Optional[str] = None">>

\* the file is named in file_to_generate and declares a service
Generable(pf) == pf.name \in request.file_to_generate /\ Len(pf.service) > 0

EntryNames == [k \in 1..Len(response.file) |-> response.file[k].name]

(* C6: generate() adds an entry for exactly the files of the request that   *)
(* are named in file_to_generate and declare a service, one entry each; the *)
(* messages of every file of the request, requested or not, are indexed;    *)
(* when no requested file declares a service the response has no file entry *)
(* and no error.                                                            *)
C6_ExactlyRequestedFilesWithServices ==
    /\ \A e \in Entries :
           \E pf \in Range(request.proto_file) :
               Generable(pf) /\ e.name = OutputFilename(parameters, pf)
    /\ \A i, j \in 1..Len(response.file) : i # j => EntryNames[i] # EntryNames[j]
    /\ pc = "done" =>
           \A pf \in Range(request.proto_file) :
               (Generable(pf) /\ ~Raises(pf.name)) =>
                   \E e \in Entries : e.name = OutputFilename(parameters, pf)
    /\ pc # "start" =>
           \A pf \in Range(request.proto_file) : \A k \in 1..Len(pf.message_type) :
               FullName(pf.package, "", pf.message_type[k].name) \in DOMAIN message_types
    /\ (\A pf \in Range(request.proto_file) : ~Generable(pf)) =>
           response.file = <<>> /\ response.error = ""

\* a.proto is a dependency only, lib/b.proto is requested and has no service,
\* c.proto is requested and has services: one entry, for c.proto, and no error
C6_Witness ==
    /\ pc = "done"
    /\ request.proto_file = <<FileA, FileB, FileC>>
    /\ request.file_to_generate = {"lib/b.proto", "c.proto"}
    /\ ".pkg.Req" \in DOMAIN message_types /\ ".Msg" \in DOMAIN message_types
    /\ EntryNames = <<"c_pb2_mcp.py">>
    /\ response.error = ""

(* C7: when generating a requested file raises, handle_file catches the     *)
(* exception: the step leaves the file entries collected so far as they     *)
(* are, adds none for the failing file, writes into response.error a report *)
(* whose first line names the file and whose second line names the          *)
(* exception class, and the loop goes on to the next file; a requested file *)
(* with services that does not raise gets its entry appended, whether or    *)
(* not an earlier file failed.                                              *)
C7_FailureIsolatedPerFile ==
    [][(pc = "files" /\ fileIdx <= Len(request.proto_file)) =>
          LET pf == request.proto_file[fileIdx] IN
          /\ pc' = "files" /\ fileIdx' = fileIdx + 1
          /\ (Generable(pf) /\ Raises(pf.name)) =>
                 /\ response'.file = response.file
                 /\ StartsWith(response'.error,
                               "File processing failed: " \o pf.name \o "\nError type: "
                                   \o faults[pf.name] \o "\n")
          /\ (Generable(pf) /\ ~Raises(pf.name)) =>
                 /\ Len(response'.file) = Len(response.file) + 1
                 /\ SubSeq(response'.file, 1, Len(response.file)) = response.file
                 /\ Last(response'.file).name = OutputFilename(parameters, pf)
                 /\ response'.error = response.error
      ]_vars

\* c.proto was generated, a.proto then raised KeyError, and a third file was
\* still visited: the entry of c.proto is kept and the report names a.proto
C7_Witness ==
    /\ pc = "done"
    /\ request.proto_file = <<FileC, FileA, FileB>>
    /\ request.file_to_generate = {"a.proto", "lib/b.proto", "c.proto"}
    /\ faults["a.proto"] = "KeyError" /\ faults["c.proto"] = ""
    /\ EntryNames = <<"c_pb2_mcp.py">>
    /\ StartsWith(response.error, "File processing failed: a.proto\nError type: KeyError\n")

\* the field f of the input message T of a generated file
FieldOfT(entry) == InputMessage(entry).field[1]

\* the one parameter of the one tool of a generated file
ParamOfT(entry) == LinesOfKind(entry.content, {"def"})[1].args.params[1]

DefaultOf(field) == IF field.proto3_optional THEN " = None" ELSE ""

\* the referenced message is in the index and has the map-entry option set
RefersToMapEntry(field) ==
    /\ field.type_name \in DOMAIN message_types
    /\ message_types[field.type_name].map_entry

\* the field of a map-entry message that has this number
Numbered(message, n) == CHOOSE f \in Range(message.field) : f.number = n

\* the base type the claim gives for a map key or value field
KeyValueBase(field) ==
    IF field.type = "TYPE_ENUM" THEN "int"
    ELSE IF field.type = "TYPE_MESSAGE"
         THEN IF field.type_name \in DOMAIN well_known_types
              THEN well_known_types[field.type_name] ELSE "dict"
    ELSE type_mapping[field.type]

(* C9: a repeated message field whose referenced message is indexed with    *)
(* the map-entry option gets the hint Dict[K, V], K and V being the base    *)
(* types of the entry's fields number 1 and number 2, and no List[...]; a   *)
(* repeated message field whose referenced message is no map entry or is    *)
(* not indexed gets a List[...] hint.                                       *)
C9_MapEntryFieldIsDict ==
    \A e \in Entries :
        LET f == FieldOfT(e) IN
        (f.label = "LABEL_REPEATED" /\ f.type = "TYPE_MESSAGE") =>
            IF RefersToMapEntry(f)
            THEN LET entry == message_types[f.type_name] IN
                 /\ ParamOfT(e) = "f: Dict[" \o KeyValueBase(Numbered(entry, 1)) \o ", "
                                      \o KeyValueBase(Numbered(entry, 2)) \o "]"
                                      \o DefaultOf(f)
                 /\ ~Contains(ParamOfT(e), "List[")
            ELSE /\ StartsWith(ParamOfT(e), "f: List[")
                 /\ ~Contains(ParamOfT(e), "Dict[")

\* the map entry KV2 declares its value field (number 2, a Timestamp) before
\* its key field (number 1, an int64)
C9_Witness ==
    /\ pc = "done"
    /\ \E e \in Entries :
           /\ FieldOfT(e).type_name = ".t.KV2"
           /\ FieldOfT(e).label = "LABEL_REPEATED"
           /\ ParamOfT(e) = "f: Dict[int, str]"

\* the base type the claim gives for a message, enum or unmapped wire type
ClaimedBase(field) ==
    IF field.type = "TYPE_ENUM" THEN "int"
    ELSE IF field.type # "TYPE_MESSAGE" THEN "Any"
    ELSE IF field.type_name \in {".google.protobuf.Timestamp", ".google.protobuf.Duration",
                                 ".google.protobuf.StringValue"} THEN "str"
    ELSE IF field.type_name \in {".google.protobuf.Int32Value", ".google.protobuf.Int64Value",
                                 ".google.protobuf.UInt32Value",
                                 ".google.protobuf.UInt64Value"} THEN "int"
    ELSE IF field.type_name \in {".google.protobuf.FloatValue",
                                 ".google.protobuf.DoubleValue"} THEN "float"
    ELSE IF field.type_name = ".google.protobuf.BoolValue" THEN "bool"
    ELSE IF field.type_name = ".google.protobuf.BytesValue" THEN "bytes"
    ELSE IF field.type_name = ".google.protobuf.Empty" THEN "None"
    ELSE IF field.type_name \in {".google.protobuf.Any", ".google.protobuf.Struct"} THEN "dict"
    ELSE IF field.type_name = ".google.protobuf.Value" THEN "Any"
    ELSE IF field.type_name = ".google.protobuf.ListValue" THEN "List[Any]"
    ELSE "dict"

(* C10: the base type of a message-typed field is its entry in the          *)
(* well-known table when the type name is in the table, and dict for every  *)
(* other type name (unrecognized .google.protobuf names and names absent    *)
(* from the index included); an enum field has base type int; a wire type   *)
(* outside the scalar table has base type Any, and no error is reported.    *)
C10_BaseTypeResolution ==
    \A e \in Entries :
        LET f == FieldOfT(e) IN
        (f.type \notin DOMAIN type_mapping) =>
            /\ response.error = ""
            /\ (f.label # "LABEL_REPEATED") =>
                   ParamOfT(e) = "f: "
                       \o (IF f.proto3_optional THEN "Optional[" \o ClaimedBase(f) \o "]"
                           ELSE ClaimedBase(f))
                       \o DefaultOf(f)
            /\ (f.label = "LABEL_REPEATED" /\ ~RefersToMapEntry(f)) =>
                   ParamOfT(e) = "f: List[" \o ClaimedBase(f) \o "]" \o DefaultOf(f)

\* a singular field of type .google.protobuf.Empty is hinted None
C10_Witness ==
    /\ pc = "done"
    /\ \E e \in Entries :
           /\ FieldOfT(e).type = "TYPE_MESSAGE"
           /\ FieldOfT(e).type_name = ".google.protobuf.Empty"
           /\ ParamOfT(e) = "f: None"

IsStreaming(method) == method.client_streaming \/ method.server_streaming

IsBidirectional(method) == method.client_streaming /\ method.server_streaming

\* the positions of the function definitions emitted for the method of this name
DefPositions(content, method_name) ==
    {j \in 1..Len(content) :
        content[j].kind \in DefKinds /\ content[j].args.method = method_name}

\* the positions of the lines of a content that have this text
TextPositions(content, text) == {i \in 1..Len(content) : content[i].text = text}

(* C11: streaming policy.  A method with neither streaming flag gets exactly *)
(* one unary tool.  For a method with a streaming flag: with stream_mode    *)
(* skip, whatever its direction, the placeholder comment is emitted and no  *)
(* function; with stream_mode warn the unary tool is emitted once, after    *)
(* the warning comment; with stream_mode collect a bidirectional method     *)
(* gets no function.  Every function definition is preceded by its          *)
(* decorator, so a method without a function has no tool at all.            *)
C11_StreamingPolicy ==
    \A e \in Entries :
        LET c == e.content
            mode == GetStreamMode(parameters)
        IN /\ \A j \in 1..Len(c) :
                  c[j].kind \in DefKinds <=>
                      (j > 1 /\ c[j - 1].kind \in {"decorator", "decorator_adapted"})
           /\ \A m \in MethodsOf(GeneratedFrom(e)) :
                  LET defs == DefPositions(c, m.name) IN
                  /\ ~IsStreaming(m) =>
                         Cardinality(defs) = 1 /\ \A j \in defs : c[j].kind = "def"
                  /\ (IsStreaming(m) /\ mode = "skip") =>
                         /\ defs = {}
                         /\ TextPositions(c, "    # Skipped streaming method: " \o m.name) # {}
                  /\ (IsStreaming(m) /\ mode = "warn") =>
                         /\ Cardinality(defs) = 1
                         /\ \A j \in defs :
                                /\ c[j].kind = "def"
                                /\ \E i \in TextPositions(c, "    # WARNING: " \o m.name
                                                                 \o " is a streaming RPC") :
                                       i < j
                  /\ (IsBidirectional(m) /\ mode = "collect") => defs = {}

\* stream_mode=warn: the bidirectional method Chat has its warning comment
\* and, five lines below it, its unary tool
C11_Witness ==
    /\ pc = "done"
    /\ GetStreamMode(parameters) = "warn"
    /\ \E e \in Entries :
           \E i \in TextPositions(e.content, "    # WARNING: Chat is a streaming RPC") :
               /\ e.content[i + 5].kind = "def"
               /\ e.content[i + 5].args.method = "Chat"

\* the name of the one function of a generated file
ToolNameOf(entry) == LinesOfKind(entry.content, DefKinds)[1].args.name

\* the method name the one function of a generated file was made from
MethodNameOf(entry) == GeneratedFrom(entry).service[1].method[1].name

\* the snake-case form of each method name, written out
SnakeForm ==
    [n \in MethodNames |->
        CASE n = "GetUserInfo" -> "get_user_info"
          [] n = "XMLParser" -> "x_m_l_parser"
          [] n = "lowercase" -> "lowercase"
          [] n = "A" -> "a"
          [] n = "" -> ""
          [] n = "get_User" -> "get__user"
          [] n = "Get2Go" -> "get2_go"]

\* the camel-case form of each method name, written out
CamelForm ==
    [n \in MethodNames |->
        CASE n = "GetUserInfo" -> "getUserInfo"
          [] n = "XMLParser" -> "xMLParser"
          [] n = "lowercase" -> "lowercase"
          [] n = "A" -> "a"
          [] n = "" -> ""
          [] n = "get_User" -> "get_User"
          [] n = "Get2Go" -> "get2Go"]

\* the kebab-case form of each method name, written out
KebabForm ==
    [n \in MethodNames |->
        CASE n = "GetUserInfo" -> "get-user-info"
          [] n = "XMLParser" -> "x-m-l-parser"
          [] n = "lowercase" -> "lowercase"
          [] n = "A" -> "a"
          [] n = "" -> ""
          [] n = "get_User" -> "get--user"
          [] n = "Get2Go" -> "get2-go"]

(* C12: the function name of a tool is the method name converted by the     *)
(* configured tool_name_case: snake puts an underscore before every         *)
(* upper-case character after the first and lower-cases the name, camel     *)
(* lower-cases the first character only, pascal keeps the name, kebab is    *)
(* the snake form with hyphens for underscores, any other case value and    *)
(* the default act as snake; the empty name converts to the empty string    *)
(* and no error is reported.                                                *)
C12_ToolNameConversion ==
    \A e \in Entries :
        MethodNameOf(e) \in MethodNames =>
            LET n == MethodNameOf(e)
                case_type == GetToolNameCase(parameters)
            IN /\ response.error = ""
               /\ ToolNameOf(e) = CASE case_type = "camel" -> CamelForm[n]
                                    [] case_type = "pascal" -> n
                                    [] case_type = "kebab" -> KebabForm[n]
                                    [] OTHER -> SnakeForm[n]

\* GetUserInfo under an unrecognized case value becomes get_user_info
C12_Witness ==
    /\ pc = "done"
    /\ request.parameter = "tool_name_case=title"
    /\ \E e \in Entries : MethodNameOf(e) = "GetUserInfo" /\ ToolNameOf(e) = "get_user_info"

----------------------------------------------------------------------------
\* the calls made so far on one of the two parsers
CallsOn(on) == SelectSeq(calls, LAMBDA c : c.on = on)

\* the parameter string of the last call on one of the two parsers
LastString(on) == CallsOn(on)[Len(CallsOn(on))].parameter_string

\* what the grammar makes of each parameter string, written out by hand: the raw map of
\* its segments that are not blank
GrammarRaw ==
    [s \in ConfigStrings |->
        CASE s = "param=value=extra, debug" -> ("param" :> "value=extra") @@ ("debug" :> "true")
          [] s = "timeout=60, timeout = 45 ,zzz=1" -> ("timeout" :> "45") @@ ("zzz" :> "1")
          [] s = "timeout=300" -> ("timeout" :> "300")
          [] s = "timeout=301" -> ("timeout" :> "301")
          [] s = "timeout=0" -> ("timeout" :> "0")
          [] s = "timeout=-10" -> ("timeout" :> "-10")
          [] s = "timeout=abc" -> ("timeout" :> "abc")
          [] s = "tool_name_case=weird,stream_mode=bogus,output_suffix=.txt,grpc_target=nohost" ->
                 ("tool_name_case" :> "weird") @@ ("stream_mode" :> "bogus")
                     @@ ("output_suffix" :> ".txt") @@ ("grpc_target" :> "nohost")
          [] s = "valid=true,=invalid,,another=good" ->
                 ("valid" :> "true") @@ ("" :> "invalid") @@ ("another" :> "good")
          [] OTHER -> EmptyDict]

\* the typed configuration of the strings whose only recognized keys are debug and timeout
GrammarTyped ==
    ("param=value=extra, debug" :> [PluginConfig EXCEPT !.debug_mode = TRUE,
                                                         !.debug_level = "basic"])
    @@ ("timeout=60, timeout = 45 ,zzz=1" :> [PluginConfig EXCEPT !.grpc_timeout = 45])
    @@ ("valid=true,=invalid,,another=good" :> PluginConfig)

\* C13: the parameter string is split on commas, each segment at its first "=" only, key
\* and value trimmed, a segment without "=" stored with the value "true", the last
\* occurrence of a key winning; a key that is not recognized stays in the raw map and
\* changes no field of the typed configuration. Checked for both parsers: the raw map of
\* the ConfigManager is the hand-written one, the plugin's map holds every key of the
\* last string with its value (and nothing else after a first call, the empty key of
\* blank segments aside), and the typed configuration is the one of the recognized keys.
C13_ParameterGrammar ==
    /\ Len(CallsOn("ConfigManager")) > 0 =>
           LET s == LastString("ConfigManager") IN
           /\ manager.parameters = GrammarRaw[s]
           /\ s \in DOMAIN GrammarTyped => manager.config = GrammarTyped[s]
    /\ Len(CallsOn("McpPlugin")) > 0 =>
           LET s == LastString("McpPlugin")
               keys == DOMAIN GrammarRaw[s] \ {""}
           IN /\ \A k \in keys : k \in DOMAIN parameters /\ parameters[k] = GrammarRaw[s][k]
              /\ Len(CallsOn("McpPlugin")) = 1 => DOMAIN parameters \ {""} = keys

\* both parsers have read a string with a second "=", a bare key, a repeated key or an
\* unrecognized key
C13_Witness ==
    /\ Len(CallsOn("ConfigManager")) > 0
    /\ LastString("ConfigManager") = "param=value=extra, debug"
    /\ manager.parameters["param"] = "value=extra"
    /\ manager.parameters["debug"] = "true"
    /\ Len(CallsOn("McpPlugin")) > 0
    /\ LastString("McpPlugin") = "timeout=60, timeout = 45 ,zzz=1"
    /\ parameters["timeout"] = "45"
    /\ parameters["zzz"] = "1"

----------------------------------------------------------------------------
\* the timeout values of ConfigStrings, by hand: positive integers above 300, and values
\* that are no integer or not positive
HighTimeouts == {"301"}

BadTimeouts == {"0", "-10", "abc"}

\* some message of the list names the timeout parameter
MentionsTimeout(messages) == \E i \in 1..Len(messages) : Contains(messages[i], "timeout")

\* what one validation run reported is what C14 asks for a timeout of this value
TimeoutReportedAsClaimed(value, result) ==
    /\ value \in HighTimeouts =>
           MentionsTimeout(result.warnings) /\ ~MentionsTimeout(result.errors)
    /\ MentionsTimeout(result.errors) => value \in BadTimeouts

\* C14: parameter validation reports a timeout that is a positive integer greater than 300
\* as a warning and not as an error; only a timeout that is no integer or not positive is
\* reported as an error. Stated for both validators: _validate_parameters of the plugin
\* and ParameterValidator.validate run by the ConfigManager.
C14_HighTimeoutIsWarning ==
    /\ "timeout" \in DOMAIN parameters =>
           TimeoutReportedAsClaimed(parameters["timeout"], reported)
    /\ "timeout" \in DOMAIN manager.parameters =>
           TimeoutReportedAsClaimed(manager.parameters["timeout"], validation)

----------------------------------------------------------------------------
\* the values of ConfigStrings that fail the validation rule of their parameter, by hand
InvalidValues ==
    [timeout |-> BadTimeouts, tool_name_case |-> {"weird"}, stream_mode |-> {"bogus"},
     output_suffix |-> {".txt"}, grpc_target |-> {"nohost"}]

\* the field of PluginConfig a parameter sets
ConfigField(key) == IF key = "timeout" THEN "grpc_timeout" ELSE key

\* the timeout each timeout value of ConfigStrings resolves to, by hand
ResolvedTimeout ==
    ("abc" :> 30) @@ ("0" :> 0) @@ ("-10" :> 0 - 10) @@ ("45" :> 45) @@ ("300" :> 300)
        @@ ("301" :> 301)

----------------------------------------------------------------------------
\* the output suffix each parameter string of the option requests configures, by hand
ConfiguredSuffix(parameter) ==
    CASE parameter = "output_suffix=_mcp.py" -> "_mcp.py"
      [] parameter = "output_suffix=.proto.py" -> ".proto.py"
      [] OTHER -> "_pb2_mcp.py"

\* a file name that ends in ".proto", without these six characters
WithoutProtoSuffix(name) == SubSeq(name, 1, Len(name) - 6)

----------------------------------------------------------------------------
RECURSIVE MessagesUnder(_, _)
\* the messages declared by a list of messages at any depth, each with the names on the way
\* from its outermost message down to it
MessagesUnder(messages, outer) ==
    UNION {{[path |-> Append(outer, messages[i].name), message |-> messages[i]]}
               \cup MessagesUnder(messages[i].nested_type, Append(outer, messages[i].name)) :
           i \in 1..Len(messages)}

\* the enums of a file at any depth, each with the names on the way down to it
EnumsOfFile(proto_file) ==
    {[path |-> <<proto_file.enum_type[i].name>>, enum |-> proto_file.enum_type[i]] :
        i \in 1..Len(proto_file.enum_type)}
    \cup UNION {{[path |-> Append(m.path, m.message.enum_type[i].name),
                  enum |-> m.message.enum_type[i]] : i \in 1..Len(m.message.enum_type)} :
                m \in MessagesUnder(proto_file.message_type, <<>>)}

\* .<package>.<Outer>...<Name>, and .<Outer>...<Name> when the package is empty
QualifiedName(package, path) ==
    (IF package = "" THEN "" ELSE "." \o package) \o "." \o Join(path, ".")

\* C17: once the type index is built, every message and every enum at any nesting depth
\* of every file of the request, requested or not, is in the index under its
\* fully-qualified name .<package>.<Outer>...<Name>; with an empty package the name is a
\* dot followed by the first component, and no name of the index has an empty component.
C17_EveryTypeIndexedUnderQualifiedName ==
    pc # "start" =>
        /\ \A f \in 1..Len(request.proto_file) :
               LET proto_file == request.proto_file[f] IN
               /\ \A m \in MessagesUnder(proto_file.message_type, <<>>) :
                      /\ QualifiedName(proto_file.package, m.path) \in DOMAIN message_types
                      /\ message_types[QualifiedName(proto_file.package, m.path)] = m.message
               /\ \A e \in EnumsOfFile(proto_file) :
                      /\ QualifiedName(proto_file.package, e.path) \in DOMAIN enum_types
                      /\ enum_types[QualifiedName(proto_file.package, e.path)] = e.enum
        /\ \A name \in DOMAIN message_types \cup DOMAIN enum_types : ~Contains(name, "..")

----------------------------------------------------------------------------
\* the unary methods of a file whose input type is not in the index
UnresolvedUnary(pf) ==
    {m \in MethodsOf(pf) :
        /\ ~(m.client_streaming \/ m.server_streaming)
        /\ m.input_type \notin DOMAIN message_types}

\* C18: analyzing a message type name that is not in the index gives the empty field
\* list; a method whose input type is unresolved still gets its tool function, without
\* parameters, and the error of the response stays empty (no file of the request being
\* made to fail otherwise).
C18_UnresolvedInputGivesParameterlessTool ==
    /\ \A e \in Entries :
           \A m \in UnresolvedUnary(GeneratedFrom(e)) :
               /\ AnalyzeMessageFields(message_types, m.input_type) = <<>>
               /\ \E d \in Range(LinesOfKind(e.content, {"def"})) : d.args.method = m.name
               /\ \A d \in Range(LinesOfKind(e.content, {"def"})) :
                      d.args.method = m.name => d.args.params = <<>>
    /\ (\A n \in DOMAIN faults : faults[n] = "") => response.error = ""

\* c.proto was generated without the file that declares its input message .pkg.Req
C18_Witness ==
    /\ pc = "done"
    /\ response.error = ""
    /\ \E e \in Entries :
           /\ e.name = "c_pb2_mcp.py"
           /\ UnresolvedUnary(GeneratedFrom(e)) # {}
           /\ \E d \in Range(LinesOfKind(e.content, {"def"})) :
                  d.args.method = "Del" /\ d.args.params = <<>>

----------------------------------------------------------------------------
\* the method comments of the option requests as the index keeps them, and with their
\* newlines collapsed to spaces, by hand
StrippedComment ==
    (" Gets the thing. " :> "Gets the thing.") @@ ("Line one\nline two" :> "Line one\nline two")

CollapsedComment ==
    (" Gets the thing. " :> "Gets the thing.") @@ ("Line one\nline two" :> "Line one line two")

\* the parameter strings of the option requests that switch comments off
CommentsDisabled == request.parameter \in {"include_comments=false", "include_comments=no"}

----------------------------------------------------------------------------
\* the parameter strings of the option requests that enable the request interceptor
InterceptorEnabled ==
    request.parameter \in {"request_interceptor=true",
                           "request_interceptor=true,grpc_target=auth.example.com:443"}

\* the grpc_target the parameter strings of the option requests configure, by hand
ConfiguredTarget ==
    IF request.parameter \in {"grpc_target=auth.example.com:443",
                              "request_interceptor=true,grpc_target=auth.example.com:443"}
    THEN "auth.example.com:443" ELSE "localhost:50051"

\* C20: with the request interceptor enabled every generated call passes the request and
\* the call metadata through the interceptor hook before the RPC is dispatched, and the
\* channel is opened to the configured grpc_target; with the interceptor disabled no
\* interceptor code is emitted.
C20_InterceptorRoutesEveryCall ==
    \A e \in Entries :
        IF InterceptorEnabled
        THEN /\ \A k \in 1..Len(e.content) :
                    e.content[k].kind = "call" =>
                        \E j \in 1..(k - 1) :
                            Contains(e.content[j].text,
                                     "request, metadata = request_interceptor(")
             /\ \A l \in Range(LinesOfKind(e.content, {"channel"})) :
                    Contains(l.text, "'" \o ConfiguredTarget \o "'")
        ELSE \A l \in Range(e.content) : ~Contains(l.text, "interceptor")

----------------------------------------------------------------------------
\* reading the request, parsing it or writing the response raises
TopLevelRaise == Raises("stdin.read") \/ Raises("ParseFromString") \/ Raises("stdout.write")

\* C21: the process ends with exit code 0 and the serialized response on standard output
\* whenever no top-level step raised, also when the response carries the error of a file
\* or a plugin error; it ends with a non-zero exit code and the diagnostic text on
\* standard error, and nothing on standard output, exactly when reading the request,
\* parsing it or writing the response raised.
C21_ExitCodeZeroUnlessTopLevelRaise ==
    process.exited =>
        /\ process.exit_code \in {0, 1}
        /\ process.exit_code = 0 <=> ~TopLevelRaise
        /\ process.exit_code = 0 => process.stdout = <<response>> /\ process.stderr = <<>>
        /\ process.exit_code # 0 =>
               /\ process.stdout = <<>>
               /\ Len(process.stderr) = 1
               /\ Contains(process.stderr[1], "[protoc-gen-py-mcp FATAL]")

\* a process that ended with exit code 0 although a file failed, its error in the response
C21_Witness ==
    /\ process.exited
    /\ process.exit_code = 0
    /\ Raises("a.proto")
    /\ "a.proto" \in request.file_to_generate
    /\ Contains(response.error, "File processing failed: a.proto")
    /\ process.stdout = <<response>>

----------------------------------------------------------------------------
\* the positions of the lines of these kinds
PositionsOfKind(content, kinds) == {k \in 1..Len(content) : content[k].kind \in kinds}

\* the lines that stand for a method: its def line, or the comment that replaces its
\* function when the streaming handler emits none
MethodMarks(content) ==
    SelectSeq(content,
              LAMBDA l : \/ l.kind \in DefKinds
                         \/ /\ l.kind = "comment"
                            /\ \/ Contains(l.text, "# Skipped streaming method: ")
                               \/ Contains(l.text, " is bidirectional streaming - not supported"))

\* the mark is the one the route of this method leaves: the unary emitter a def without
\* indentation, the streaming handler its comment, its adapted def or its indented def
MarkOfMethod(mark, method) ==
    IF ~(method.client_streaming \/ method.server_streaming)
    THEN mark.kind = "def" /\ mark.args.method = method.name /\ ~StartsWith(mark.text, " ")
    ELSE IF GetStreamMode(parameters) = "skip"
    THEN mark.text = "    # Skipped streaming method: " \o method.name
    ELSE IF GetStreamMode(parameters) = "collect"
    THEN IF method.client_streaming /\ method.server_streaming
         THEN Contains(mark.text, "# NOTE: " \o method.name \o " is bidirectional streaming")
         ELSE mark.kind = "def_adapted" /\ mark.args.method = method.name
    ELSE mark.kind = "def" /\ mark.args.method = method.name /\ StartsWith(mark.text, "    ")

\* C22: the content of every generated file is, in this order, the header comment block,
\* the import block, for each service in declaration order its methods in declaration
\* order, each routed to the streaming handler if a streaming flag is set and to the
\* unary emitter otherwise, and the main-block trailer, emitted once, nothing after it.
C22_EmissionOrder ==
    \A e \in Entries :
        LET content == e.content
            n == Len(content)
            headers == PositionsOfKind(content, {"header"})
            imports == PositionsOfKind(content, {"import"})
            mains == PositionsOfKind(content, {"main"})
            others == (1..n) \ (headers \cup imports \cup mains
                                    \cup PositionsOfKind(content, {"blank"}))
            marks == MethodMarks(content)
            methods == OwnedMethods(GeneratedFrom(e))
        IN /\ headers = 1..3
           /\ imports # {}
           /\ \A h \in headers, i \in imports : h < i
           /\ \A i \in imports, o \in others : i < o
           /\ \A o \in others, m \in mains : o < m
           /\ mains = {n - 1, n}
           /\ content[n - 1].text = "if __name__ == '__main__':"
           /\ content[n].text = "    mcp.run()"
           /\ Len(marks) = Len(methods)
           /\ \A k \in 1..Len(marks) : MarkOfMethod(marks[k], methods[k].method)

\* c.proto generated: two services, four methods, one of them streaming
C22_Witness ==
    /\ pc = "done"
    /\ \E e \in Entries :
           /\ GeneratedFrom(e).name = "c.proto"
           /\ Len(MethodMarks(e.content)) = 4
           /\ MarkOfMethod(MethodMarks(e.content)[2], FileC.service[1].method[2])
           /\ MarkOfMethod(MethodMarks(e.content)[4], FileC.service[2].method[2])

(* C23: for every message in the index, field analysis returns exactly one  *)
(* entry per field, in declaration order, and every entry has               *)
(* optional = proto3_optional or is_oneof, required = not optional and not  *)
(* repeated and not map; an is_oneof entry has a type hint starting with    *)
(* Optional[ and the name of its group as oneof_name; a field that is not a *)
(* member of a real oneof (a group whose members do not all carry           *)
(* proto3_optional) has is_oneof = FALSE.                                   *)
C23_FieldEntryInvariants ==
    \A name \in DOMAIN message_types :
        LET message == message_types[name]
            info == AnalyzeMessageFields(message_types, name)
        IN /\ Len(info) = Len(message.field)
           /\ \A k \in 1..Len(info) :
                  LET field == message.field[k]
                      e == info[k]
                      in_real_oneof ==
                          \E i \in Groups(message) :
                              k \in Members(message, i) /\ ~AllMembersOptional(message, i)
                  IN /\ e.name = field.name
                     /\ e.optional = (field.proto3_optional \/ e.is_oneof)
                     /\ e.required = (~e.optional /\ ~e.repeated /\ ~e.is_map)
                     /\ e.repeated = (field.label = "LABEL_REPEATED")
                     /\ e.is_oneof => /\ StartsWith(e.type, "Optional[")
                                      /\ e.oneof_name = message.oneof_decl[field.oneof_index + 1]
                     /\ ~in_real_oneof => ~e.is_oneof

\* an indexed message with two fields whose first is a member of a real oneof
\* and whose second is a plain required field
C23_Witness ==
    \E name \in DOMAIN message_types :
        LET info == AnalyzeMessageFields(message_types, name)
        IN /\ Len(info) = 2
           /\ info[1].is_oneof /\ info[1].optional /\ ~info[1].required
           /\ ~info[2].is_oneof /\ info[2].required
           /\ info[1].name # info[2].name

(* C24: after any sequence of parse_parameters calls on one object, the     *)
(* raw parameter map, the debug mode and the typed settings equal those of  *)
(* parsing only the most recent parameter string on a fresh object.         *)
C24_OnlyLatestCallCounts ==
    /\ Len(CallsOn("ConfigManager")) > 0 =>
           manager = ManagerParseParameters(LastString("ConfigManager"))
    /\ Len(CallsOn("McpPlugin")) > 0 =>
           LET s == LastString("McpPlugin")
               fresh == ParseParameters(EmptyDict, s)
           IN /\ parameters = fresh
              /\ debug_mode = ParseDebugMode(FALSE, EmptyDict, s)
              /\ GetGrpcTimeout(parameters) = GetGrpcTimeout(fresh)
              /\ GetToolNameCase(parameters) = GetToolNameCase(fresh)

\* the requested files of the request whose handle_file raised
FailingFiles ==
    {k \in 1..Len(request.proto_file) :
        /\ IsRequested(request, request.proto_file[k])
        /\ Len(request.proto_file[k].service) > 0
        /\ Raises(request.proto_file[k].name)}

(* C25: after generate() returns, response.error contains the report of     *)
(* every requested file whose generation raised; the report of an earlier   *)
(* failing file is not replaced by the report of a later one.               *)
C25_EveryFailureReported ==
    pc = "done" =>
        \A k \in FailingFiles :
            Contains(response.error, "File processing failed: " \o request.proto_file[k].name)

\* the names of the typing module that a line of code uses
TypingNamesIn(text) ==
    {n \in {"Optional", "List", "Dict", "Any"} :
        Contains(text, n \o "[") \/ Contains(text, ": " \o n) \/ Contains(text, " " \o n \o ",")
            \/ Contains(text, " " \o n \o "]") \/ Contains(text, "[" \o n \o "]")
            \/ Contains(text, "[" \o n \o ",")}

\* the names a generated file imports from typing
TypingImports(content) ==
    {n \in {"Optional", "List", "Dict", "Any"} :
        \E l \in Range(LinesOfKind(content, {"import"})) :
            StartsWith(l.text, "from typing import ") /\ Contains(l.text, n)}

(* C26: every name of the typing module (Optional, List, Dict, Any) that    *)
(* appears in the signature of a tool function of a generated file is       *)
(* imported from typing by that file.                                       *)
C26_TypingNamesImported ==
    \A e \in Entries :
        \A d \in Range(LinesOfKind(e.content, {"def", "def_adapted"})) :
            TypingNamesIn(d.text) \subseteq TypingImports(e.content)

\* the name a tool definition at position j of a file is registered under: the name
\* given to the decorator, or the function name for a bare @mcp.tool()
RegisteredName(content, j) ==
    IF content[j - 1].args.name # "" THEN content[j - 1].args.name ELSE content[j].args.name

(* C27: within one generated file no two emitted tool functions share the   *)
(* same Python function name or the same registered tool name, also when    *)
(* two services of the file declare methods with the same name.             *)
C27_ToolNamesDistinct ==
    \A e \in Entries :
        LET c == e.content
            defs == PositionsOfKind(c, DefKinds)
        IN \A i, j \in defs :
               i # j => /\ c[i].args.name # c[j].args.name
                        /\ RegisteredName(c, i) # RegisteredName(c, j)

(* C28: every emitted tool function is a module-level definition: its       *)
(* decorator line and its def line carry no leading indentation, for unary  *)
(* methods and for streaming methods under every stream_mode.               *)
C28_ToolsAreModuleLevel ==
    \A e \in Entries :
        \A l \in Range(LinesOfKind(e.content, DefKinds \cup {"decorator", "decorator_adapted"})) :
            ~StartsWith(l.text, " ")

\* the parameter map with the values of tool_name_case and stream_mode in lower case
WithLowerCaseOptions(params) ==
    [k \in DOMAIN params |->
        IF k \in {"tool_name_case", "stream_mode"} THEN Lower(params[k]) ELSE params[k]]

\* the validation of the parameters found nothing to report as an error
ParametersAccepted == pc # "start" /\ reported.errors = <<>>

(* C29: every tool_name_case or stream_mode value that parameter validation *)
(* accepts selects in the generator the behaviour of the matching           *)
(* lower-case option: the generated file is the one the lower-case value    *)
(* gives; stream_mode=SKIP emits no function for a streaming method,        *)
(* stream_mode=COLLECT none for a bidirectional method, and                 *)
(* tool_name_case=CAMEL gives camel-case function names.                    *)
C29_AcceptedValueSelectsLowerCaseBehaviour ==
    ParametersAccepted =>
        \A e \in Entries :
            LET pf == GeneratedFrom(e)
                lower == WithLowerCaseOptions(parameters)
                defs == LinesOfKind(e.content, DefKinds)
            IN /\ e.content = GenerateFileContent(lower, message_types, source_comments, pf)
               /\ GetStreamMode(lower) = "skip" =>
                      \A d \in Range(defs) : ~IsStreaming(MethodNamed(pf, d.args.method))
               /\ GetStreamMode(lower) = "collect" =>
                      \A d \in Range(defs) :
                          LET m == MethodNamed(pf, d.args.method)
                          IN ~(m.client_streaming /\ m.server_streaming)
               /\ GetToolNameCase(lower) = "camel" =>
                      \A d \in Range(defs) :
                          d.args.name = Lower(SubSeq(d.args.method, 1, 1))
                                            \o SubSeq(d.args.method, 2, Len(d.args.method))

\* the part of an entry of a field analysis the two analyzers are compared on
ComparedPart(e) ==
    [name |-> e.name, type |-> e.type, required |-> e.required, optional |-> e.optional,
     repeated |-> e.repeated, is_map |-> e.is_map, is_oneof |-> e.is_oneof]

(* C30: for every message in the index, McpPlugin._analyze_message_fields   *)
(* and TypeAnalyzer.analyze_message_fields return lists of the same length  *)
(* and order whose entries agree on name, type hint (the key and value      *)
(* types of a map included) and on the flags required, optional, repeated,  *)
(* is_map and is_oneof.                                                     *)
C30_AnalyzersAgree ==
    \A name \in DOMAIN message_types :
        LET plugin == AnalyzeMessageFields(message_types, name)
            analyzer == TypeAnalyzerAnalyzeMessageFields(message_types, name)
        IN /\ Len(plugin) = Len(analyzer)
           /\ \A k \in 1..Len(plugin) : ComparedPart(plugin[k]) = ComparedPart(analyzer[k])

====
